---- MODULE Spec2Model ----
(***************************************************************************)
(* Real-time room synchronisation of the collaborative whiteboard:        *)
(* the socket.io gateway (src/unnamed/part_003, lines 163-544), the       *)
(* durable active-session records it keeps in the Whiteboard documents,   *)
(* and the canvas client (src/frontend/src/components/CanvasBoard.jsx,    *)
(* the component that starts at line 628).                                *)
(***************************************************************************)
EXTENDS Integers, Sequences, FiniteSets, TLC

\* ------------------------------------------------------------------ bounds
MaxOps == 2          \* Spec: operation messages handled in one run
MaxOrderOps == 2     \* OrderSpec: operation messages handled in one run
MaxForwardOps == 1   \* ForwardSpec: operation messages handled in one run
MaxSyncOps == 2      \* SyncSpec: messages handled in one run
MaxSnapshotOps == 3  \* SnapshotSpec: messages handled in one run
MaxSweepOps == 1     \* SweepSpec: draw messages handled in one run
MaxSweeps == 2       \* SweepSpec: how often the stale sweep runs
MaxPayloadOps == 1   \* PayloadSpec: draw messages handled in one run
MaxStoreOps == 1     \* StoreSpec: draw messages handled in one run
MaxAuthOps == 2      \* AuthSpec: operation messages handled in one run
MaxJoinOps == 1      \* JoinSpec: draw messages handled in one run
MaxConvergeOps == 2  \* ConvergeSpec: operation messages handled in one run
MaxCacheOps == 3     \* CacheSpec: operation messages handled in one run
MaxClearOps == 3     \* ClearSpec: operation messages handled in one run
MaxSaveOps == 2      \* SaveSpec: operation messages handled in one run
MaxReplyOps == 3     \* ReplySpec: operation messages handled in one run
MaxReplayOps == 2    \* ReplaySpec: operation messages handled in one run
MaxRecords == 3      \* RejoinSpec: session records in one board's document
MaxIsolateOps == 2   \* IsolateSpec: operation messages handled in one run
MaxLeaveOps == 2     \* LeaveSpec: operation messages handled in one run
MaxRecoverOps == 2   \* RecoverSpec: operation messages handled in one run
MaxHistoryOps == 3   \* HistorySpec: operation messages handled in one run
MaxRetryOps == 2     \* RetrySpec: operation messages handled in one run
MaxDropOps == 3      \* DropSpec: operation messages handled in one run
MaxChats == 2        \* ChatSpec: chat messages persisted, and store requests in flight
MaxImgWidth == 2     \* LoadSpec: the width of a snapshot image in cells
MaxAlpha == 2        \* LoadSpec: opacity levels of a cell, 0 (clear) to MaxAlpha (opaque)
MaxLoadFrames == 2   \* LoadSpec: frames a run keeps, one for each snapshot drawn
MaxLoads == 2        \* LoadSpec: how often one snapshot is drawn in a row

\* --------------------------------------------------------------- constants
\* Time is counted in sweep intervals (part_003:544, 5 * 60 * 1000 ms): `now` is the
\* number of sweeps that have run, and a Date is the interval it falls in. The
\* staleness threshold (part_003:532, 5 * 60 * 1000 ms) is one interval.
StaleIntervals == 1

\* The most frames the undo history keeps (CanvasBoard.jsx:649, 100).
HISTORY_MAX_FRAMES == 3

\* The logical width of the canvas (CanvasBoard.jsx:645, 1920), in cells.
VIRTUAL_WIDTH == 3

Conns == {"A", "B", "C"}       \* socket ids
Pair == {"A", "B"}             \* the two pages of SnapshotSpec
ConnOrder == [c \in Conns |-> CASE c = "A" -> 1 [] c = "B" -> 2 [] OTHER -> 3]
Boards == {"b1"}               \* room ids that are valid ObjectIds (persisted boards)
Rooms == Boards \cup {"abc"}   \* "abc": an arbitrary string id (preview board)

\* mongoose.Types.ObjectId.isValid(roomId)
IsValidObjectId(r) == r \in Boards

CachedTypes == {"draw", "erase", "shape", "text", "fill", "selection-cut", "paste-selection"}

VARIABLES
  sockets,           \* the connection of each socket id: "none", "open", "closed" (by the
                     \* client), "refused" (by the auth middleware), "lost" (process exit)
  rooms,             \* io.sockets.adapter.rooms: [Rooms -> SUBSET Conns]
  canvasStateCache,  \* [Rooms -> Seq(event)]
  activeUsers,       \* Whiteboard.activeUsers of each board: [Boards -> Seq(record)]
  pending,           \* store requests in flight, each with the handler that awaits it
  sent,              \* [Conns -> Seq(message)]: the canvas messages emitted to each socket
  roomInfo,          \* [Conns -> room-info]: the latest room-info emitted to each socket
  notices,           \* [Conns -> set]: the user-joined / user-left / error emitted to each socket
  now,               \* the clock: the number of sweep intervals that have passed
  nOps,              \* operation messages handled so far; the next one is numbered nOps + 1
  chatMessages,      \* the ChatMessage collection: Seq(document), in the order of creation
  whiteboardId,      \* client: the board each page is open on ("" before it is open)
  emitted,           \* client: the lifecycle messages each page has emitted
  canvas,            \* client: the marks on each page's canvas
  loading,           \* client: the images each page is decoding (img.onload to come)
  rcvd,              \* client: how many of the messages sent to it a page has handled
  auth,              \* client: socket.handshake.auth.token of each page
  saving,            \* client: where the save() of each page stands
  dataURL,           \* client: the picture of its canvas that save() took last
  canvasImages,      \* the store: Whiteboard.canvasImage of each board (the marks it shows)
  pixels,            \* client: the cells of each page's canvas, one row of opacities
  decoding,          \* client: the snapshots whose Image each page is decoding
  applied,           \* client: the snapshot a page drew last, once for each time in a row
  pageLoading,       \* client: the `loading` state of each Whiteboard page
  mounted,           \* client: whether the page's CanvasBoard is rendered (its ref is set)
  request,           \* client: where loadWhiteboard of each page stands, and what it got
  history,           \* client: historyRef.current of each canvas, a sequence of frames
  historyStep,       \* client: historyStepRef.current of each canvas (-1: no frame)
  isInitialized,     \* client: isInitialized.current of each canvas
  timers             \* client: the batches of the pending setTimeout(() => replay(evs),
                     \* REPLAY_RETRY_MS) of each canvas, in the order they fire

serverVars == <<sockets, rooms, canvasStateCache, activeUsers, pending, sent, roomInfo,
                notices, chatMessages, now, nOps>>

pageVars == <<whiteboardId, emitted>>

sessionVars == <<auth, saving, dataURL, canvasImages>>

canvasVars == <<canvas, loading, rcvd>>

surfaceVars == <<pixels, decoding, applied>>

boardVars == <<pageLoading, mounted, request, isInitialized, timers>>

historyVars == <<history, historyStep>>

clientVars == <<pageVars, canvasVars, sessionVars, surfaceVars, boardVars, historyVars>>

vars == <<serverVars, clientVars>>

\* ------------------------------------------------------------ data shapes
\* A cached event {type, ...payload}; id is the payload's identity, numbered in
\* the order the server handled the operations; p is "ok" for a payload with the
\* fields its type needs (from and to, or numeric x and y) and "none" for one without.
Event(type, r, c, id) == [type |-> type, roomId |-> r, from |-> c, id |-> id, p |-> "ok"]

\* A message emitted to a socket: events is the batch of canvas-state, img the
\* picture of board:load-snapshot (the marks it shows).
Msg(type, r, c, id, events, img) ==
  [type |-> type, roomId |-> r, from |-> c, id |-> id, events |-> events, img |-> img,
   p |-> "ok"]

\* The payload of room-info.
RoomInfo(r, n) == [roomId |-> r, userCount |-> n]

\* The payload of user-joined and user-left.
Notice(type, r, c) == [type |-> type, roomId |-> r, from |-> c]

\* One element of Whiteboard.activeUsers.
Session(c, t, oid) == [socketId |-> c, joinedAt |-> t, lastActivity |-> t, _id |-> oid]

\* The _id mongoose gives a new subdocument: one that no element of the array has.
ObjectId(s) == CHOOSE n \in 1..(Len(s) + 1) :
                 /\ \A i \in 1..Len(s) : s[i]._id # n
                 /\ \A m \in 1..(n - 1) : \E i \in 1..Len(s) : s[i]._id = m

\* ------------------------------------------------------------ the cache
getCanvasState(r) == canvasStateCache[r]

\* A clear that takes only the newest entry out of the log: with it in the place of
\* clearCanvasState, single entries are removed, which C17 excludes.
dropNewest(r) == [canvasStateCache EXCEPT ![r] = SubSeq(@, 1, Len(@) - 1)]

\* A clear of every room's log: with it in the place of clearCanvasState, the other
\* rooms lose their logs, which C19 excludes.
clearEveryRoom(r) == [x \in Rooms |-> <<>>]

\* canvasStateCache.delete(roomId): the next getCanvasState(roomId) starts an empty log.
clearCanvasState(r) == [canvasStateCache EXCEPT ![r] = <<>>]

\* ------------------------------------------------------------ emitting
\* An emit to every connected socket, whatever room it is in: with it in the place
\* of Emit, an operation reaches the other rooms, which C29 excludes.
EmitEverywhere(log, to, m) ==
  [d \in Conns |-> IF sockets[d] = "open" THEN Append(log[d], m) ELSE log[d]]

\* Append m to the log of every socket of `to` that is still connected.
Emit(log, to, m) ==
  [d \in Conns |-> IF d \in to /\ sockets[d] = "open" THEN Append(log[d], m) ELSE log[d]]

\* io.to(roomId): every socket in the room.
IoTo(r) == rooms[r]

\* const roomSize = io.sockets.adapter.rooms.get(roomId)?.size || 0
roomSize(r) == Cardinality(rooms[r])

\* io.to(roomId).emit('room-info', ...): the latest one replaces the one before.
EmitRoomInfo(ri, r) ==
  [d \in Conns |-> IF d \in IoTo(r) /\ sockets[d] = "open"
                   THEN RoomInfo(r, roomSize(r)) ELSE ri[d]]

\* socket.to(roomId).emit('user-joined' / 'user-left', ...)
EmitNotice(nt, c, type, r) ==
  [d \in Conns |-> IF d \in rooms[r] \ {c} /\ sockets[d] = "open"
                   THEN nt[d] \cup {Notice(type, r, c)} ELSE nt[d]]

\* io.to(roomId) in the place of socket.to(roomId): the sender is sent its own
\* message, which C5 excludes.
WholeRoom(c, r) == rooms[r]

\* socket.to(roomId): every socket in the room except the sender.
SocketTo(c, r) == rooms[r] \ {c}

\* ------------------------------------------------------------ the store
\* $addToSet: append unless an equal element is there.
AddToSet(s, e) == IF \E i \in 1..Len(s) : s[i] = e THEN s ELSE Append(s, e)

\* $pull {socketId: c}
PullSocket(s, c) == LET Keep(e) == e.socketId # c IN SelectSeq(s, Keep)

\* A pull that also takes the records on the threshold: with it in the place of
\* PullStale, a record that is exactly five minutes old is removed, which C27 excludes.
PullNotAfter(s, t) == LET Keep(e) == e.lastActivity > t IN SelectSeq(s, Keep)

\* $pull {lastActivity: {$lt: t}}
PullStale(s, t) == LET Keep(e) == ~(e.lastActivity < t) IN SelectSeq(s, Keep)

\* $set activeUsers.$.lastActivity: the first element matching socketId
FirstMatch(s, c) ==
  IF \E i \in 1..Len(s) : s[i].socketId = c
  THEN CHOOSE i \in 1..Len(s) : s[i].socketId = c /\ \A j \in 1..(i-1) : s[j].socketId # c
  ELSE 0

SetLastActivity(s, c, t) ==
  IF FirstMatch(s, c) = 0 THEN s
  ELSE [s EXCEPT ![FirstMatch(s, c)].lastActivity = t]

\* A store request in flight: the handler h of socket c that issued it at time t for
\* room r; rs is the handler's local `rooms` (disconnect).
Request(h, c, r, t, rs) == [h |-> h, c |-> c, r |-> r, t |-> t, rs |-> rs]

HasSession(b, c) == \E i \in 1..Len(activeUsers[b]) : activeUsers[b][i].socketId = c

\* The server process runs until shutdown() ends in process.exit(0), which drops
\* every connection it holds.
Running == \A c \in Conns : sockets[c] # "lost"

\* ------------------------------------------------------------ the raster
\* The canvas as cells: one row of VIRTUAL_WIDTH cells, cell p covering the logical
\* coordinates [p-1, p); the code treats the other axis in the same way.
Cells == 1..VIRTUAL_WIDTH

Alpha == 0..MaxAlpha

Blank == [p \in Cells |-> 0]

Min(a, b) == IF a < b THEN a ELSE b

Max(a, b) == IF a > b THEN a ELSE b

\* source-over compositing of one cell: src + dst * (1 - src), rounded up to a level.
over(src, dst) ==
  Min(MaxAlpha, src + (dst * (MaxAlpha - src) + MaxAlpha - 1) \div MaxAlpha)

\* A load that keeps what is on the canvas: with it in the place of clearRect, a
\* translucent snapshot drawn twice is darker than drawn once, which C24 excludes.
keepRect(row) == row

\* ctx.clearRect(0, 0, VIRTUAL_WIDTH, VIRTUAL_HEIGHT)
clearRect(row) == Blank

\* ctx.drawImage(img, 0, 0, img.width, img.height, dx, dy, dw, dh): the image scaled
\* into [dx, dx + dw), clipped to the canvas.
drawImage(row, img, dx, dw) ==
  [p \in Cells |->
     IF dw > 0 /\ dx <= p - 1 /\ p - 1 < dx + dw
     THEN over(img[((p - 1 - dx) * Len(img)) \div dw + 1], row[p])
     ELSE row[p]]

\* The snapshot images, as rows of opacities.
Images == UNION {[1..w -> Alpha] : w \in 1..MaxImgWidth}

\* The bounds that come with a snapshot: none (or not finite), or x and width.
NoBounds == [finite |-> FALSE, x |-> 0, width |-> 0]

BoundsSet ==
  {NoBounds} \cup {[finite |-> TRUE, x |-> x, width |-> w] :
                     x \in 0..(VIRTUAL_WIDTH + 1), w \in 1..(VIRTUAL_WIDTH + 1)}

looksPhysical(bounds) == bounds.x > VIRTUAL_WIDTH \/ bounds.width > VIRTUAL_WIDTH

\* img.onload of loadFromDataURL: clearRect, then drawImage where the bounds say.
imgOnload(row, img, bounds) ==
  LET cleared == clearRect(row) IN
  IF ~bounds.finite THEN drawImage(cleared, img, 0, VIRTUAL_WIDTH)
  ELSE IF looksPhysical(bounds)
       THEN drawImage(cleared, img, Max(0, (VIRTUAL_WIDTH - Len(img)) \div 2), Len(img))
       ELSE LET bw == Min(bounds.width, VIRTUAL_WIDTH)
                bx == Max(0, Min(bounds.x, VIRTUAL_WIDTH - bw))
            IN drawImage(cleared, img, bx, bw)

\* ------------------------------------------------------------ the board page
\* loadWhiteboard of a page: not started, fetch sent, done, or failed; with what
\* localStorage holds for the board (nothing, a copy older than the document's
\* lastModified, or a newer one) and whether the document has a canvasImage.
NoRequest == [at |-> "none", local |-> "none", canvasImage |-> FALSE]

LocalCopies == {"none", "older", "newer"}

\* The image saved in the document, and the image of the local copy.
ServerImage == [img |-> <<MaxAlpha>>, bounds |-> NoBounds]

LocalImage == [img |-> <<1>>, bounds |-> NoBounds]

\* ------------------------------------------------------------ initial state
Init ==
  /\ sockets = [c \in Conns |-> "none"]
  /\ rooms = [r \in Rooms |-> {}]
  /\ canvasStateCache = [r \in Rooms |-> <<>>]
  /\ activeUsers = [b \in Boards |-> <<>>]
  /\ pending = {}
  /\ sent = [c \in Conns |-> <<>>]
  /\ roomInfo = [c \in Conns |-> RoomInfo("", 0)]
  /\ notices = [c \in Conns |-> {}]
  /\ now = 0
  /\ nOps = 0
  /\ chatMessages = <<>>
  /\ whiteboardId = [c \in Conns |-> ""]
  /\ emitted = [c \in Conns |-> {}]
  /\ canvas = [c \in Conns |-> {}]
  /\ loading = [c \in Conns |-> {}]
  /\ rcvd = [c \in Conns |-> 0]
  /\ auth = [c \in Conns |-> "good"]
  /\ saving = [c \in Conns |-> "idle"]
  /\ dataURL = [c \in Conns |-> {}]
  /\ canvasImages = [r \in Rooms |-> {}]
  /\ pixels = [c \in Conns |-> Blank]
  /\ decoding = [c \in Conns |-> {}]
  /\ applied = [c \in Conns |-> <<>>]
  /\ pageLoading = [c \in Conns |-> TRUE]
  /\ mounted = [c \in Conns |-> FALSE]
  /\ request = [c \in Conns |-> NoRequest]
  /\ history = [c \in Conns |-> <<>>]
  /\ historyStep = [c \in Conns |-> -1]
  /\ isInitialized = [c \in Conns |-> TRUE]
  /\ timers = [c \in Conns |-> <<>>]

\* ------------------------------------------------------------ connection
\* io.on('connection'): the handshake passed the auth middleware. Socket ids are
\* handed out in the order A, B, C.
Connect(c) ==
  /\ Running
  /\ sockets[c] = "none"
  /\ \A d \in Conns : ConnOrder[d] < ConnOrder[c] => sockets[d] # "none"
  /\ sockets' = [sockets EXCEPT ![c] = "open"]
  /\ UNCHANGED <<rooms, canvasStateCache, activeUsers, pending, sent, roomInfo, notices,
                 chatMessages, now, nOps>>

\* What a handshake can carry as auth.token: nothing, a token the verifier answers
\* with an error, a token the verifier call throws on, a token of a user.
Tokens == {"", "bad", "fails", "good"}

\* await supabase.auth.getUser(token)
getUser(token) ==
  CASE token = "good" -> "user"
    [] token = "bad" -> "error"
    [] OTHER -> "throws"

\* A middleware that calls next() for every handshake: with it in the place of
\* Authenticate, C13 fails.
AuthenticateAll(token) == "next"

\* io.use(async (socket, next) => ...): "next" for next(), else the Error's message.
Authenticate(token) ==
  IF token = "" THEN "Authentication token required"
  ELSE IF getUser(token) = "throws" THEN "Authentication failed"
  ELSE IF getUser(token) = "error" THEN "Invalid authentication token"
  ELSE "next"

\* A handshake with a token: the connection handler runs only after next().
Handshake(c, token) ==
  IF Authenticate(token) = "next"
  THEN Connect(c)
  ELSE /\ Running
       /\ sockets[c] = "none"
       /\ \A d \in Conns : ConnOrder[d] < ConnOrder[c] => sockets[d] # "none"
       /\ sockets' = [sockets EXCEPT ![c] = "refused"]
       /\ UNCHANGED <<rooms, canvasStateCache, activeUsers, pending, sent, roomInfo,
                      notices, chatMessages, now, nOps>>

\* ------------------------------------------------------------ join
\* The roomId values of a join payload that are no room id: a missing one, the empty
\* string, one that is no string (the number 42).
BadRoomIds == {"<undefined>", "", "<42>"}

\* !roomId
Falsy(roomId) == roomId \in {"<undefined>", ""}

\* typeof roomId
typeof(roomId) ==
  CASE roomId = "<undefined>" -> "undefined"
    [] roomId = "<42>" -> "number"
    [] OTHER -> "string"

\* An emit that sends nothing: with it in the place of EmitError, the caller of an
\* invalid join is told nothing, which C14 excludes.
EmitNothing(nt, c, r, message) == nt

\* socket.emit('error', { message }) to the socket of the handler
EmitError(nt, c, r, message) ==
  [d \in Conns |-> IF d = c /\ sockets[d] = "open"
                   THEN nt[d] \cup {Notice("error", r, message)} ELSE nt[d]]

\* socket.on('join'), up to the await of the session-record write; a room id that
\* is no ObjectId ends the handler right after socket.join.
Join(c, r) ==
  /\ sockets[c] = "open"
  /\ rooms' = [rooms EXCEPT ![r] = @ \cup {c}]
  /\ pending' = IF IsValidObjectId(r)
                THEN pending \cup {Request("join", c, r, now, {})}
                ELSE pending
  /\ UNCHANGED <<sockets, canvasStateCache, activeUsers, sent, roomInfo, notices, chatMessages, now, nOps>>

\* The canvas-state message of the join handler.
CanvasStateTo(log, c, r) ==
  IF Len(getCanvasState(r)) > 0
  THEN Emit(log, {c}, Msg("canvas-state", r, "server", 0, getCanvasState(r), {}))
  ELSE log

\* socket.on('join'), from the start: an invalid roomId ends it with an error event.
JoinMessage(c, roomId) ==
  IF Falsy(roomId) \/ typeof(roomId) # "string"
  THEN /\ sockets[c] = "open"
       /\ notices' = EmitError(notices, c, roomId, "Invalid room id")
       /\ UNCHANGED <<sockets, rooms, canvasStateCache, activeUsers, pending, sent, roomInfo,
                      chatMessages, now, nOps>>
  ELSE Join(c, roomId)

\* socket.on('join'), from the completion of the write to the end.
JoinResume(w) ==
  /\ w \in pending /\ w.h = "join"
  /\ pending' = pending \ {w}
  /\ activeUsers' = [activeUsers EXCEPT ![w.r] = AddToSet(@, Session(w.c, w.t, ObjectId(@)))]
  /\ notices' = EmitNotice(notices, w.c, "user-joined", w.r)
  /\ roomInfo' = EmitRoomInfo(roomInfo, w.r)
  /\ sent' = CanvasStateTo(sent, w.c, w.r)
  /\ UNCHANGED <<sockets, rooms, canvasStateCache, chatMessages, now, nOps>>

\* socket.on('join') when the awaited write rejects: the catch logs and emits error;
\* the rest of the try block is skipped.
JoinFailed(w) ==
  /\ w \in pending /\ w.h = "join"
  /\ pending' = pending \ {w}
  /\ notices' = EmitError(notices, w.c, w.r, "Failed to join room")
  /\ UNCHANGED <<sockets, rooms, canvasStateCache, activeUsers, sent, roomInfo, chatMessages, now, nOps>>

\* ------------------------------------------------------------ operations
\* socket.to(roomId).emit(type, payload)
ForwardPayload(c, type, r, img) ==
  /\ sockets[c] = "open"
  /\ nOps' = nOps + 1
  /\ sent' = Emit(sent, SocketTo(c, r), Msg(type, r, c, nOps + 1, <<>>, img))
  /\ UNCHANGED <<sockets, rooms, roomInfo, notices, chatMessages, now>>

Forward(c, type, r) == ForwardPayload(c, type, r, {})

\* A push to the front of the cache: with it in the place of Push, the handling
\* order of C4 is lost.
PushFirst(state, type, r, c) == <<Event(type, r, c, nOps + 1)>> \o state

\* state.push({type, ...payload})
Push(state, type, r, c) == Append(state, Event(type, r, c, nOps + 1))

\* socket.on('draw' / 'shape' / 'text' / 'fill') with a payload that has a roomId but
\* not the fields of its type: the handler reads only roomId, caches and forwards.
WithoutFields(c, type, r) ==
  /\ sockets[c] = "open"
  /\ nOps' = nOps + 1
  /\ canvasStateCache' =
       [canvasStateCache EXCEPT ![r] = Append(@, [Event(type, r, c, nOps + 1) EXCEPT !.p = "none"])]
  /\ sent' = Emit(sent, SocketTo(c, r),
                  [Msg(type, r, c, nOps + 1, <<>>, {}) EXCEPT !.p = "none"])
  /\ UNCHANGED <<sockets, rooms, activeUsers, pending, roomInfo, notices, chatMessages, now>>

\* A handler that forwards without caching: with it in the place of CacheAndForward,
\* the entry of C18 is missing.
ForwardOnly(c, type, r) == Forward(c, type, r) /\ UNCHANGED canvasStateCache

\* const state = getCanvasState(roomId); state.push(...); socket.to(roomId).emit(...)
CacheAndForward(c, type, r) ==
  /\ canvasStateCache' = [canvasStateCache EXCEPT ![r] = Push(getCanvasState(r), type, r, c)]
  /\ Forward(c, type, r)

\* socket.on('draw'): also refreshes lastActivity, not awaited.
Draw(c, r) ==
  /\ CacheAndForward(c, "draw", r)
  /\ pending' = IF IsValidObjectId(r)
                THEN pending \cup {Request("activity", c, r, now, {})}
                ELSE pending
  /\ UNCHANGED activeUsers

Erase(c, r) == CacheAndForward(c, "erase", r) /\ UNCHANGED <<activeUsers, pending>>

Shape(c, r) == CacheAndForward(c, "shape", r) /\ UNCHANGED <<activeUsers, pending>>

Text(c, r) == CacheAndForward(c, "text", r) /\ UNCHANGED <<activeUsers, pending>>

Fill(c, r) == CacheAndForward(c, "fill", r) /\ UNCHANGED <<activeUsers, pending>>

SelectionCut(c, r) ==
  CacheAndForward(c, "selection-cut", r) /\ UNCHANGED <<activeUsers, pending>>

PasteSelection(c, r) ==
  CacheAndForward(c, "paste-selection", r) /\ UNCHANGED <<activeUsers, pending>>

\* A text-typing handler that caches like the text handler: with it in the place of
\* TextTyping, the typing state is replayed to joiners, which C32 excludes.
TypingCached(c, r) ==
  CacheAndForward(c, "text-typing", r) /\ UNCHANGED <<activeUsers, pending>>

\* socket.on('text-typing') / socket.on('text-finalized'): forwarded, not cached.
TextTyping(c, r) ==
  Forward(c, "text-typing", r) /\ UNCHANGED <<canvasStateCache, activeUsers, pending>>

TextFinalized(c, r) ==
  Forward(c, "text-finalized", r) /\ UNCHANGED <<canvasStateCache, activeUsers, pending>>

\* socket.on('board-cleared')
BoardCleared(c, r) ==
  /\ canvasStateCache' = clearCanvasState(r)
  /\ Forward(c, "board-cleared", r)
  /\ UNCHANGED <<activeUsers, pending>>

\* socket.on('board-saved')
BoardSaved(c, r) ==
  /\ sockets[c] = "open"
  /\ nOps' = nOps + 1
  /\ canvasStateCache' = clearCanvasState(r)
  /\ UNCHANGED <<sockets, rooms, activeUsers, pending, sent, roomInfo, notices, chatMessages, now>>

\* socket.on('board:request-sync')
RequestSync(c, r) ==
  Forward(c, "board:request-sync", r) /\ UNCHANGED <<canvasStateCache, activeUsers, pending>>

\* socket.on('board:load-snapshot')
LoadSnapshot(c, r, img) ==
  /\ ForwardPayload(c, "board:load-snapshot", r, img)
  /\ UNCHANGED <<canvasStateCache, activeUsers, pending>>

\* The lastActivity write of a draw completes.
ActivityDone(w) ==
  /\ w \in pending /\ w.h = "activity"
  /\ pending' = pending \ {w}
  /\ activeUsers' = [activeUsers EXCEPT ![w.r] = SetLastActivity(@, w.c, w.t)]
  /\ UNCHANGED <<sockets, rooms, canvasStateCache, sent, roomInfo, notices, chatMessages, now, nOps>>

\* The lastActivity write of a draw rejects: .catch logs it.
ActivityFailed(w) ==
  /\ w \in pending /\ w.h = "activity"
  /\ pending' = pending \ {w}
  /\ UNCHANGED <<sockets, rooms, canvasStateCache, activeUsers, sent, roomInfo, notices,
                 chatMessages, now, nOps>>

\* ------------------------------------------------------------ chat
\* The texts a chat payload carries here: "hi", " hi " (padded), " " (blank),
\* "" (empty); "<42>" is the number 42, "<undefined>" a missing text.
\* A text taken as it is: with it in the place of trim, a blank text passes for a
\* message and is persisted and delivered, which C30 excludes.
asIs(text) == text

\* text.trim()
trim(text) ==
  CASE text = " hi " -> "hi"
    [] text = " " -> ""
    [] OTHER -> text

\* socket.on('chatMessage'), up to the await of ChatMessage.create.
ChatMessage(c, roomId, text) ==
  /\ sockets[c] = "open"
  /\ IF Falsy(roomId) \/ typeof(text) # "string" \/ trim(text) = ""
     THEN /\ notices' = EmitError(notices, c, roomId, "Invalid message format")
          /\ UNCHANGED pending
     ELSE /\ pending' = pending \cup {Request("chat", c, roomId, now, {trim(text)})}
          /\ UNCHANGED notices
  /\ UNCHANGED <<sockets, rooms, canvasStateCache, activeUsers, sent, roomInfo,
                 chatMessages, now, nOps>>

\* ChatMessage.create in the store: the document is validated (whiteboardId is cast
\* to an ObjectId) and inserted, or the call rejects (ok is whether the store is up).
ChatMessageCreate(w, ok) ==
  /\ w \in pending /\ w.h = "chat"
  /\ IF ok /\ IsValidObjectId(w.r)
     THEN /\ chatMessages' = Append(chatMessages,
                               [_id |-> Len(chatMessages) + 1, whiteboardId |-> w.r,
                                userId |-> w.c, text |-> CHOOSE t \in w.rs : TRUE])
          /\ pending' = (pending \ {w}) \cup
                          {Request("chat-created", w.c, w.r, Len(chatMessages) + 1, w.rs)}
     ELSE /\ pending' = (pending \ {w}) \cup {Request("chat-rejected", w.c, w.r, w.t, w.rs)}
          /\ UNCHANGED chatMessages
  /\ UNCHANGED <<sockets, rooms, canvasStateCache, activeUsers, sent, roomInfo, notices,
                 now, nOps>>

\* socket.on('chatMessage'), from the completion of the create to the end:
\* io.to(roomId).emit('chatMessage', ...), or the catch's error event.
ChatMessageResume(w) ==
  /\ w \in pending /\ w.h \in {"chat-created", "chat-rejected"}
  /\ pending' = pending \ {w}
  /\ IF w.h = "chat-created"
     THEN /\ sent' = Emit(sent, IoTo(w.r), Msg("chatMessage", w.r, w.c, w.t, <<>>, {}))
          /\ UNCHANGED notices
     ELSE /\ notices' = EmitError(notices, w.c, w.r, "Failed to send message")
          /\ UNCHANGED sent
  /\ UNCHANGED <<sockets, rooms, canvasStateCache, activeUsers, roomInfo, chatMessages,
                 now, nOps>>

\* ------------------------------------------------------------ leave, disconnect
\* socket.on('leave'), up to the await of the $pull; for a room id that is no
\* ObjectId the query fails to cast and the handler ends in its catch.
Leave(c, r) ==
  /\ sockets[c] = "open"
  /\ rooms' = [rooms EXCEPT ![r] = @ \ {c}]
  /\ pending' = IF IsValidObjectId(r)
                THEN pending \cup {Request("leave", c, r, now, {})}
                ELSE pending
  /\ UNCHANGED <<sockets, canvasStateCache, activeUsers, sent, roomInfo, notices, chatMessages, now, nOps>>

\* socket.on('leave'), from the completion of the $pull to the end.
LeaveResume(w) ==
  /\ w \in pending /\ w.h = "leave"
  /\ pending' = pending \ {w}
  /\ activeUsers' = [activeUsers EXCEPT ![w.r] = PullSocket(@, w.c)]
  /\ notices' = EmitNotice(notices, w.c, "user-left", w.r)
  /\ UNCHANGED <<sockets, rooms, canvasStateCache, sent, roomInfo, chatMessages, now, nOps>>

\* The rooms of a socket, as socket.rooms gives them (without the socket's own id).
SocketRooms(rs, c) == {r \in Rooms : c \in rs[r]}

\* The socket closes: socket.io takes it out of all its rooms and then runs
\* socket.on('disconnect'), which reads socket.rooms and awaits the $pull.
Disconnect(c) ==
  /\ sockets[c] = "open"
  /\ sockets' = [sockets EXCEPT ![c] = "closed"]
  /\ rooms' = [r \in Rooms |-> rooms[r] \ {c}]
  /\ pending' = pending \cup {Request("disconnect", c, "", now, SocketRooms(rooms', c))}
  /\ UNCHANGED <<canvasStateCache, activeUsers, sent, roomInfo, notices, chatMessages, now, nOps>>

\* rooms.forEach: user-left to the others of each room ...
RECURSIVE NotifyLeft(_, _, _)
NotifyLeft(nt, c, rs) ==
  IF rs = {} THEN nt
  ELSE LET r == CHOOSE x \in rs : TRUE
       IN NotifyLeft(EmitNotice(nt, c, "user-left", r), c, rs \ {r})

\* ... and room-info to each room.
RECURSIVE NotifySize(_, _)
NotifySize(ri, rs) ==
  IF rs = {} THEN ri
  ELSE LET r == CHOOSE x \in rs : TRUE
       IN NotifySize(EmitRoomInfo(ri, r), rs \ {r})

\* socket.on('disconnect'), from the completion of the $pull to the end.
DisconnectResume(w) ==
  /\ w \in pending /\ w.h = "disconnect"
  /\ pending' = pending \ {w}
  /\ activeUsers' = [b \in Boards |-> PullSocket(activeUsers[b], w.c)]
  /\ notices' = NotifyLeft(notices, w.c, w.rs)
  /\ roomInfo' = NotifySize(roomInfo, w.rs)
  /\ UNCHANGED <<sockets, rooms, canvasStateCache, sent, chatMessages, now, nOps>>

\* ------------------------------------------------------------ the process
\* What a client can send in the place of a payload object.
Payloads == {"undefined", "null", "string"}

\* The handlers declared with a destructuring parameter, ({ roomId }) => ...
Destructuring == {"join", "leave", "board-cleared", "board-saved", "board:request-sync",
                  "board:load-snapshot"}

\* The handlers declared with a default parameter, (payload = {}) => { const { roomId } = payload
DefaultParam == {"draw", "erase", "shape", "text", "text-typing", "text-finalized", "fill",
                 "selection-cut", "paste-selection"}

\* Binding { roomId } throws a TypeError on undefined and on null; the default {} stands
\* in for undefined only; a string has no roomId, and the handler returns at !roomId.
Throws(type, payload) ==
  IF type \in DefaultParam THEN payload = "null" ELSE payload \in {"undefined", "null"}

\* process.on('uncaughtException' / 'unhandledRejection') -> shutdown(): io.close()
\* drops every connection and process.exit(0) ends the process; the handlers that
\* await the store never resume.
shutdown ==
  /\ sockets' = [d \in Conns |-> IF sockets[d] = "open" THEN "lost" ELSE sockets[d]]
  /\ rooms' = [r \in Rooms |-> {}]
  /\ pending' = {}
  /\ UNCHANGED <<canvasStateCache, activeUsers, sent, roomInfo, notices, chatMessages, now, nOps>>

\* A message of socket c whose payload is no object. The TypeError is thrown in the
\* listener, outside every try, so it reaches the process-level handlers.
Malformed(c, type, payload) ==
  /\ sockets[c] = "open"
  /\ IF Throws(type, payload) THEN shutdown ELSE UNCHANGED serverVars

\* ------------------------------------------------------------ stale sweep
\* new Date(Date.now() - 5 * 60 * 1000) at the sweep that ends interval `now`
fiveMinutesAgo == (now + 1) - StaleIntervals

\* setInterval(..., 5 * 60 * 1000): the next interval ends, and the sweep $pulls the
\* records whose lastActivity is before fiveMinutesAgo.
StaleSweep ==
  /\ Running
  /\ now' = now + 1
  /\ activeUsers' = [b \in Boards |-> PullStale(activeUsers[b], fiveMinutesAgo)]
  /\ UNCHANGED <<sockets, rooms, canvasStateCache, pending, sent, roomInfo, notices,
                 chatMessages, nOps>>

\* ------------------------------------------------------------ the pages
\* A page opens a board and connects (Whiteboard: io(API_URL, {auth})).
Open(c, r) ==
  /\ Connect(c)
  /\ whiteboardId' = [whiteboardId EXCEPT ![c] = r]
  /\ UNCHANGED <<emitted, canvasVars, sessionVars, surfaceVars, boardVars, historyVars>>

\* A page opens a board with the token its session gives it.
OpenWith(c, r, token) ==
  /\ Handshake(c, token)
  /\ whiteboardId' = [whiteboardId EXCEPT ![c] = r]
  /\ auth' = [auth EXCEPT ![c] = token]
  /\ UNCHANGED <<emitted, canvasVars, saving, dataURL, canvasImages, surfaceVars, boardVars, historyVars>>

\* socket.on("connect"): socket.emit("join", {roomId: whiteboardId}), once per socket.
EmitJoin(c) ==
  /\ "join" \notin emitted[c]
  /\ emitted' = [emitted EXCEPT ![c] = @ \cup {"join"}]
  /\ JoinMessage(c, whiteboardId[c])
  /\ UNCHANGED <<whiteboardId, canvasVars, sessionVars, surfaceVars, boardVars, historyVars>>

\* A page emits leave for its board, once, after its join.
EmitLeave(c) ==
  /\ "join" \in emitted[c] /\ "leave" \notin emitted[c]
  /\ emitted' = [emitted EXCEPT ![c] = @ \cup {"leave"}]
  /\ Leave(c, whiteboardId[c])
  /\ UNCHANGED <<whiteboardId, canvasVars, sessionVars, surfaceVars, boardVars, historyVars>>

\* ------------------------------------------------------------ the canvas
\* The message a page handles next.
NextMsg(c) == sent[c][rcvd[c] + 1]

\* ctx.getImageData(0, 0, canvas.width, canvas.height): the whole canvas.
getImageData(cv, px) == [canvas |-> cv, pixels |-> px]

\* A pushHistory that keeps the frames beyond the current step: with it in the place
\* of slice, the frames an undo stepped back from stay in the history, which C35
\* excludes.
sliceAll(h, step) == h

\* historyRef.current.slice(0, historyStepRef.current + 1)
slice(h, step) == SubSeq(h, 1, step + 1)

\* pushHistory(), with img the frame that getImageData gives.
pushHistory(c, img) ==
  LET pushed == Append(slice(history[c], historyStep[c]), img)
      kept == IF Len(pushed) > HISTORY_MAX_FRAMES THEN Tail(pushed) ELSE pushed
  IN /\ history' = [history EXCEPT ![c] = kept]
     /\ historyStep' = [historyStep EXCEPT ![c] = Len(kept) - 1]

\* restoreHistory(idx): clearRect of the whole canvas, then the frame is drawn.
restoreHistory(c, idx) ==
  /\ canvas' = [canvas EXCEPT ![c] = history[c][idx + 1].canvas]
  /\ pixels' = [pixels EXCEPT ![c] = history[c][idx + 1].pixels]

\* An undo that also clears the board for everybody: with it in the place of Undo,
\* an undo reaches the server and the other pages, which C34 excludes.
UndoShared(c) ==
  /\ historyStep[c] > 0
  /\ historyStep' = [historyStep EXCEPT ![c] = @ - 1]
  /\ restoreHistory(c, historyStep[c] - 1)
  /\ BoardCleared(c, whiteboardId[c])
  /\ UNCHANGED <<pageVars, sessionVars, loading, rcvd, decoding, applied, boardVars, history>>

\* undo()
Undo(c) ==
  /\ historyStep[c] > 0
  /\ historyStep' = [historyStep EXCEPT ![c] = @ - 1]
  /\ restoreHistory(c, historyStep[c] - 1)
  /\ UNCHANGED <<serverVars, pageVars, sessionVars, loading, rcvd, decoding, applied, boardVars,
                 history>>

\* redo()
Redo(c) ==
  /\ historyStep[c] < Len(history[c]) - 1
  /\ historyStep' = [historyStep EXCEPT ![c] = @ + 1]
  /\ restoreHistory(c, historyStep[c] + 1)
  /\ UNCHANGED <<serverVars, pageVars, sessionVars, loading, rcvd, decoding, applied, boardVars,
                 history>>

\* onPointerUp with the pen: the stroke ends, pushHistory().
MouseUp(c) ==
  /\ pushHistory(c, getImageData(canvas[c], pixels[c]))
  /\ UNCHANGED <<serverVars, pageVars, canvasVars, sessionVars, surfaceVars, boardVars>>

\* handleMouseMove with the pen: a stroke on the own canvas and socket.emit("draw").
PenStroke(c) ==
  /\ canvas' = [canvas EXCEPT ![c] = @ \cup {Event("draw", whiteboardId[c], c, nOps + 1)}]
  /\ Draw(c, whiteboardId[c])
  /\ UNCHANGED <<pageVars, sessionVars, loading, rcvd, surfaceVars, boardVars, historyVars>>

\* clear(): clearRect of the whole canvas and socket.emit("board-cleared").
ClearBoard(c) ==
  /\ canvas' = [canvas EXCEPT ![c] = {}]
  /\ BoardCleared(c, whiteboardId[c])
  /\ pushHistory(c, getImageData({}, pixels[c]))
  /\ UNCHANGED <<pageVars, sessionVars, loading, rcvd, surfaceVars, boardVars>>

\* socket.on("board-cleared", onBoardCleared): clearRect of the whole canvas.
OnBoardCleared(c) ==
  /\ rcvd[c] < Len(sent[c]) /\ NextMsg(c).type = "board-cleared"
  /\ rcvd' = [rcvd EXCEPT ![c] = @ + 1]
  /\ canvas' = [canvas EXCEPT ![c] = {}]
  /\ pushHistory(c, getImageData({}, pixels[c]))
  /\ UNCHANGED <<serverVars, pageVars, sessionVars, loading, surfaceVars, boardVars>>

\* The late-joiner effect: socket.emit("board:request-sync"), once per page.
EmitRequestSync(c) ==
  /\ "board:request-sync" \notin emitted[c]
  /\ emitted' = [emitted EXCEPT ![c] = @ \cup {"board:request-sync"}]
  /\ RequestSync(c, whiteboardId[c])
  /\ UNCHANGED <<whiteboardId, canvasVars, sessionVars, surfaceVars, boardVars, historyVars>>

\* socket.on("draw", onDraw): the stroke is drawn on the canvas; without from or to
\* the listener returns.
OnDraw(c) ==
  /\ rcvd[c] < Len(sent[c]) /\ NextMsg(c).type = "draw"
  /\ rcvd' = [rcvd EXCEPT ![c] = @ + 1]
  /\ canvas' = IF NextMsg(c).p = "ok"
               THEN [canvas EXCEPT ![c] = @ \cup {Event("draw", NextMsg(c).roomId,
                                                         NextMsg(c).from, NextMsg(c).id)}]
               ELSE canvas
  /\ UNCHANGED <<serverVars, pageVars, sessionVars, loading, surfaceVars, boardVars, historyVars>>

\* socket.on("board:request-sync", onRequestSync): reply with a picture of the canvas.
OnRequestSync(c) ==
  /\ rcvd[c] < Len(sent[c]) /\ NextMsg(c).type = "board:request-sync"
  /\ rcvd' = [rcvd EXCEPT ![c] = @ + 1]
  /\ IF NextMsg(c).roomId = whiteboardId[c]
     THEN LoadSnapshot(c, whiteboardId[c], canvas[c])
     ELSE UNCHANGED serverVars
  /\ UNCHANGED <<pageVars, sessionVars, canvas, loading, surfaceVars, boardVars, historyVars>>

\* socket.on("board:load-snapshot", onLoadSnapshot): loadFromDataURL starts decoding.
OnLoadSnapshot(c) ==
  /\ rcvd[c] < Len(sent[c]) /\ NextMsg(c).type = "board:load-snapshot"
  /\ rcvd' = [rcvd EXCEPT ![c] = @ + 1]
  /\ loading' = IF NextMsg(c).roomId = whiteboardId[c]
                THEN [loading EXCEPT ![c] = @ \cup {NextMsg(c).img}]
                ELSE loading
  /\ UNCHANGED <<serverVars, pageVars, sessionVars, canvas, surfaceVars, boardVars, historyVars>>

\* img.onload of loadFromDataURL: clearRect of the whole canvas, then drawImage.
ImgOnload(c, img) ==
  /\ img \in loading[c]
  /\ loading' = [loading EXCEPT ![c] = @ \ {img}]
  /\ canvas' = [canvas EXCEPT ![c] = img]
  /\ pushHistory(c, getImageData(img, pixels[c]))
  /\ UNCHANGED <<serverVars, pageVars, sessionVars, rcvd, surfaceVars, boardVars>>

\* The messages the canvas has a listener for.
Heard == {"draw", "shape", "text", "text-typing", "text-finalized", "fill", "selection-cut",
          "paste-selection", "board-cleared", "board:request-sync", "board:load-snapshot"}

\* A message without a listener is dropped.
Unheard(c) ==
  /\ rcvd[c] < Len(sent[c]) /\ NextMsg(c).type \notin Heard
  /\ rcvd' = [rcvd EXCEPT ![c] = @ + 1]
  /\ UNCHANGED <<serverVars, pageVars, sessionVars, canvas, loading, surfaceVars, boardVars, historyVars>>

\* save(): a picture of the canvas is taken; with a board and a session token it is
\* PUT to the server; without, the page only alerts "Cannot save".
Save(c) ==
  /\ whiteboardId[c] # "" /\ saving[c] # "fetching"
  /\ saving' = [saving EXCEPT ![c] = IF auth[c] # "" THEN "fetching" ELSE "cannot"]
  /\ dataURL' = [dataURL EXCEPT ![c] = canvas[c]]
  /\ UNCHANGED <<serverVars, pageVars, canvasVars, auth, canvasImages, surfaceVars, boardVars, historyVars>>

\* What comes back from fetch: a success response, an error response, or a rejection
\* (the request could not be sent).
Responses == {"ok", "error", "unsent"}

\* await fetch(...) settles; a success response says that the store has the picture as
\* the board's canvasImage.
Respond(c, res) ==
  /\ saving[c] = "fetching"
  /\ saving' = [saving EXCEPT ![c] = res]
  /\ canvasImages' = IF res = "ok"
                    THEN [canvasImages EXCEPT ![whiteboardId[c]] = dataURL[c]]
                    ELSE canvasImages
  /\ UNCHANGED <<serverVars, pageVars, canvasVars, auth, dataURL, surfaceVars, boardVars, historyVars>>

\* A page that takes every response for a success: with it in the place of resOk,
\* board-saved follows a failed save, which C20 excludes.
anyRes(res) == TRUE

\* res.ok, for a response; a rejected fetch throws before it.
resOk(res) == res = "ok"

\* The rest of save(): if (!res.ok) throw; ...; socket.emit("board-saved", {roomId});
\* the catch only alerts.
SaveResume(c) ==
  /\ saving[c] \in Responses
  /\ IF resOk(saving[c])
       THEN /\ saving' = [saving EXCEPT ![c] = "saved"]
            /\ emitted' = [emitted EXCEPT ![c] = @ \cup {"board-saved"}]
            /\ IF sockets[c] = "open" THEN BoardSaved(c, whiteboardId[c])
                                      ELSE UNCHANGED serverVars
       ELSE /\ saving' = [saving EXCEPT ![c] = "failed"]
            /\ UNCHANGED <<serverVars, emitted>>
  /\ UNCHANGED <<whiteboardId, canvasVars, auth, dataURL, canvasImages, surfaceVars, boardVars, historyVars>>

\* A live listener for one message type: the operation is drawn on the canvas, unless
\* its payload lacks the fields of the type.
Listen(c, type) ==
  /\ rcvd[c] < Len(sent[c]) /\ NextMsg(c).type = type
  /\ rcvd' = [rcvd EXCEPT ![c] = @ + 1]
  /\ canvas' = IF NextMsg(c).p = "ok"
               THEN [canvas EXCEPT ![c] = @ \cup {Event(type, NextMsg(c).roomId,
                                                      NextMsg(c).from, NextMsg(c).id)}]
               ELSE canvas
  /\ UNCHANGED <<serverVars, pageVars, sessionVars, loading, surfaceVars, boardVars>>

\* pushHistory() at the end of a listener that did not return early (rcvd[c] still
\* points at the message the listener handles).
pushAfter(c, early) ==
  IF early /\ NextMsg(c).p # "ok"
  THEN UNCHANGED historyVars
  ELSE pushHistory(c, getImageData(canvas'[c], pixels[c]))

\* socket.on("shape", onShape), socket.on("text", onText), socket.on("fill", onFill),
\* socket.on("selection-cut", onSelectionCut), socket.on("paste-selection",
\* onPasteSelection): onText keeps no frame, onSelectionCut has no early return.
OnShape(c) == Listen(c, "shape") /\ pushAfter(c, TRUE)

OnText(c) == Listen(c, "text") /\ UNCHANGED historyVars

OnFill(c) == Listen(c, "fill") /\ pushAfter(c, TRUE)

OnSelectionCut(c) == Listen(c, "selection-cut") /\ pushAfter(c, FALSE)

OnPasteSelection(c) == Listen(c, "paste-selection") /\ pushAfter(c, TRUE)

\* The cases of the switch in applyEvents; every other type falls to default: break.
ReplayCases == {"draw", "shape", "text", "fill"}

\* A replay that stops at the first entry it does not draw: with it in the place of
\* applyEvents, the entries after a dropped one are lost, which C31 excludes.
RECURSIVE applyUntilDropped(_, _)
applyUntilDropped(cv, events) ==
  IF events = <<>> \/ Head(events).type \notin ReplayCases \/ Head(events).p # "ok"
  THEN cv
  ELSE applyUntilDropped(cv \cup {Head(events)}, Tail(events))

\* applyEvents(events): for (const ev of evs), the events of the cases are drawn, in
\* order; one without the fields of its type breaks out of the switch.
RECURSIVE applyEvents(_, _)
applyEvents(cv, events) ==
  IF events = <<>> THEN cv
  ELSE applyEvents(IF Head(events).type \in ReplayCases /\ Head(events).p = "ok"
                   THEN cv \cup {Head(events)} ELSE cv,
                   Tail(events))

\* replay(evs) past its test of isInitialized: the events are drawn, pushHistory().
replayNow(c, evs) ==
  /\ canvas' = [canvas EXCEPT ![c] = applyEvents(@, evs)]
  /\ pushHistory(c, getImageData(canvas'[c], pixels[c]))

\* A replay that does not look at isInitialized: with it in the place of Replay, a
\* batch is drawn before the canvas is laid out, which C33 excludes.
ReplayAtOnce(c, evs, queue) == replayNow(c, evs) /\ timers' = [timers EXCEPT ![c] = queue]

\* replay(evs), called for a new batch (queue: the timers pending) or by a timer that
\* fires (queue: the others): before isInitialized it sets a timer for the batch and
\* returns.
Replay(c, evs, queue) ==
  IF isInitialized[c]
  THEN replayNow(c, evs) /\ timers' = [timers EXCEPT ![c] = queue]
  ELSE /\ timers' = [timers EXCEPT ![c] = Append(queue, evs)]
       /\ UNCHANGED <<canvas, historyVars>>

\* The replay of a canvas-state batch: applyEvents with the events of the batch.
ApplyEvents(c) ==
  /\ rcvd[c] < Len(sent[c]) /\ NextMsg(c).type = "canvas-state"
  /\ rcvd' = [rcvd EXCEPT ![c] = @ + 1]
  /\ Replay(c, NextMsg(c).events, timers[c])
  /\ UNCHANGED <<serverVars, pageVars, sessionVars, loading, surfaceVars, pageLoading, mounted,
                 request, isInitialized>>

\* A timer of applyEvents fires after REPLAY_RETRY_MS: replay(evs) again. The timers
\* have one delay, so they fire in the order they were set.
ReplayRetry(c) ==
  /\ timers[c] # <<>>
  /\ Replay(c, Head(timers[c]), Tail(timers[c]))
  /\ UNCHANGED <<serverVars, pageVars, sessionVars, loading, rcvd, surfaceVars, pageLoading,
                 mounted, request, isInitialized>>

\* A local opaque mark on one cell of the canvas.
Paint(c, p) ==
  /\ pixels' = [pixels EXCEPT ![c][p] = over(MaxAlpha, @)]
  /\ applied' = [applied EXCEPT ![c] = <<>>]
  /\ UNCHANGED <<serverVars, pageVars, canvasVars, sessionVars, decoding, boardVars, historyVars>>

\* loadFromDataURL(dataURL, bounds), up to img.src = dataURL.
LoadFromDataURL(c, img, bounds) ==
  /\ decoding' = [decoding EXCEPT ![c] = @ \cup {[img |-> img, bounds |-> bounds]}]
  /\ UNCHANGED <<serverVars, pageVars, canvasVars, sessionVars, pixels, applied, boardVars, historyVars>>

\* img.onload of loadFromDataURL for the snapshot s.
ImgLoaded(c, s) ==
  /\ s \in decoding[c]
  /\ decoding' = [decoding EXCEPT ![c] = @ \ {s}]
  /\ pixels' = [pixels EXCEPT ![c] = imgOnload(@, s.img, s.bounds)]
  /\ applied' = [applied EXCEPT ![c] = IF @ # <<>> /\ @[1] = s THEN Append(@, s) ELSE <<s>>]
  /\ pushHistory(c, getImageData(canvas[c], pixels'[c]))
  /\ UNCHANGED <<serverVars, pageVars, canvasVars, sessionVars, boardVars>>

\* canvasBoardRef.current?.loadFromDataURL(...): nothing when the ref is null.
RefLoadFromDataURL(c, s) ==
  IF mounted[c] THEN [decoding EXCEPT ![c] = @ \cup {s}] ELSE decoding

\* The effect of the page: loadWhiteboard() up to the await of the fetch. It runs when
\* the page opens and again when the session changes.
LoadWhiteboard(c, local) ==
  /\ whiteboardId[c] # "" /\ request[c].at # "sent"
  /\ request[c].at = "none" \/ local = request[c].local
  /\ pageLoading' = [pageLoading EXCEPT ![c] = TRUE]
  /\ request' = [request EXCEPT ![c] = [at |-> "sent", local |-> local, canvasImage |-> FALSE]]
  /\ UNCHANGED <<serverVars, pageVars, canvasVars, sessionVars, surfaceVars, mounted, historyVars,
                 isInitialized, timers>>

\* loadWhiteboard() from the response on: the priorities, then finally
\* setLoading(false). A response that is not ok ends in the catch.
WhiteboardLoaded(c, ok, canvasImage) ==
  /\ request[c].at = "sent"
  /\ request' = [request EXCEPT ![c].at = IF ok THEN "done" ELSE "failed",
                                ![c].canvasImage = ok /\ canvasImage]
  /\ decoding' = IF ~ok THEN decoding
                 ELSE IF request[c].local = "newer" THEN RefLoadFromDataURL(c, LocalImage)
                 ELSE IF canvasImage THEN RefLoadFromDataURL(c, ServerImage)
                 ELSE IF request[c].local # "none" THEN RefLoadFromDataURL(c, LocalImage)
                 ELSE decoding
  /\ pageLoading' = [pageLoading EXCEPT ![c] = FALSE]
  /\ UNCHANGED <<serverVars, pageVars, canvasVars, sessionVars, pixels, applied, mounted,
                 historyVars, isInitialized, timers>>

\* The page renders: the spinner while loading, the CanvasBoard otherwise. A CanvasBoard
\* that mounts starts with an empty canvas and fresh refs; one that unmounts takes its
\* canvas with it, and what its timers do no longer shows on the page.
Render(c) ==
  /\ mounted[c] = pageLoading[c]
  /\ mounted' = [mounted EXCEPT ![c] = ~pageLoading[c]]
  /\ pixels' = [pixels EXCEPT ![c] = Blank]
  /\ applied' = [applied EXCEPT ![c] = <<>>]
  /\ decoding' = [decoding EXCEPT ![c] = {}]
  /\ history' = [history EXCEPT ![c] = <<>>]
  /\ historyStep' = [historyStep EXCEPT ![c] = -1]
  /\ isInitialized' = [isInitialized EXCEPT ![c] = FALSE]
  /\ timers' = [timers EXCEPT ![c] = <<>>]
  /\ UNCHANGED <<serverVars, pageVars, canvasVars, sessionVars, pageLoading, request>>

\* applySizing() of the mounted CanvasBoard, called by its effect and by the resize
\* observer: the first one that finds the wrapper sets isInitialized and calls
\* loadSavedBoard(), which draws the local copy, if there is one.
applySizing(c) ==
  /\ mounted[c] /\ ~isInitialized[c]
  /\ isInitialized' = [isInitialized EXCEPT ![c] = TRUE]
  /\ decoding' = [decoding EXCEPT ![c] = IF request[c].local # "none"
                                         THEN @ \cup {LocalImage} ELSE @]
  /\ UNCHANGED <<serverVars, pageVars, canvasVars, sessionVars, pixels, applied, pageLoading,
                 mounted, request, historyVars, timers>>

Server(A) == A /\ UNCHANGED clientVars

\* ------------------------------------------------------------ specifications
\* Catch-up on join: pages join, draw, clear and save.
Next ==
  \/ \E c \in Conns, r \in Rooms : Open(c, r)
  \/ \E c \in Conns : EmitJoin(c)
  \/ \E w \in pending : Server(JoinResume(w))
  \/ \E c \in Conns : nOps < MaxOps /\ Server(Draw(c, whiteboardId[c]))
  \/ \E c \in Conns : nOps < MaxOps /\ Server(BoardCleared(c, whiteboardId[c]))
  \/ \E c \in Conns : nOps < MaxOps /\ Server(BoardSaved(c, whiteboardId[c]))
  \/ \E w \in pending : Server(ActivityDone(w))

Spec == Init /\ [][Next]_vars

\* Broadcast order: the seven cached operations.
OrderNext ==
  \/ \E c \in Conns, r \in Rooms : Open(c, r)
  \/ \E c \in Conns : EmitJoin(c)
  \/ \E w \in pending : Server(JoinResume(w))
  \/ \E c \in Conns : nOps < MaxOrderOps /\ Server(Draw(c, whiteboardId[c]))
  \/ \E c \in Conns : nOps < MaxOrderOps /\ Server(Erase(c, whiteboardId[c]))
  \/ \E c \in Conns : nOps < MaxOrderOps /\ Server(Shape(c, whiteboardId[c]))
  \/ \E c \in Conns : nOps < MaxOrderOps /\ Server(Text(c, whiteboardId[c]))
  \/ \E c \in Conns : nOps < MaxOrderOps /\ Server(Fill(c, whiteboardId[c]))
  \/ \E c \in Conns : nOps < MaxOrderOps /\ Server(SelectionCut(c, whiteboardId[c]))
  \/ \E c \in Conns : nOps < MaxOrderOps /\ Server(PasteSelection(c, whiteboardId[c]))
  \/ \E w \in pending : Server(ActivityDone(w))

OrderSpec == Init /\ [][OrderNext]_vars

\* Presence: join, leave and disconnect.
PresenceNext ==
  \/ \E c \in Conns, r \in Rooms : Open(c, r)
  \/ \E c \in Conns : EmitJoin(c)
  \/ \E w \in pending : Server(JoinResume(w))
  \/ \E c \in Conns : EmitLeave(c)
  \/ \E w \in pending : Server(LeaveResume(w))
  \/ \E c \in Conns : Server(Disconnect(c))
  \/ \E w \in pending : Server(DisconnectResume(w))

PresenceSpec == Init /\ [][PresenceNext]_vars

\* Stale sessions: the pages of one board join and draw, the page of C closes, the
\* sweep runs.
SweepNext ==
  \/ \E c \in Conns, r \in Boards : Open(c, r)
  \/ \E c \in Conns : EmitJoin(c)
  \/ \E w \in pending : Server(JoinResume(w))
  \/ Server(Disconnect("C"))
  \/ \E w \in pending : Server(DisconnectResume(w))
  \/ \E c \in Conns : nOps < MaxSweepOps /\ Server(Draw(c, whiteboardId[c]))
  \/ \E w \in pending : Server(ActivityDone(w))
  \/ now < MaxSweeps /\ Server(StaleSweep)

SweepSpec == Init /\ [][SweepNext]_vars

\* Forwarding: every message the server relays.
ForwardNext ==
  \/ \E c \in Conns, r \in Rooms : Open(c, r)
  \/ \E c \in Conns : EmitJoin(c)
  \/ \E w \in pending : Server(JoinResume(w))
  \/ \E c \in Conns : nOps < MaxForwardOps /\ Server(Draw(c, whiteboardId[c]))
  \/ \E c \in Conns : nOps < MaxForwardOps /\ Server(Erase(c, whiteboardId[c]))
  \/ \E c \in Conns : nOps < MaxForwardOps /\ Server(Shape(c, whiteboardId[c]))
  \/ \E c \in Conns : nOps < MaxForwardOps /\ Server(Text(c, whiteboardId[c]))
  \/ \E c \in Conns : nOps < MaxForwardOps /\ Server(TextTyping(c, whiteboardId[c]))
  \/ \E c \in Conns : nOps < MaxForwardOps /\ Server(TextFinalized(c, whiteboardId[c]))
  \/ \E c \in Conns : nOps < MaxForwardOps /\ Server(Fill(c, whiteboardId[c]))
  \/ \E c \in Conns : nOps < MaxForwardOps /\ Server(SelectionCut(c, whiteboardId[c]))
  \/ \E c \in Conns : nOps < MaxForwardOps /\ Server(PasteSelection(c, whiteboardId[c]))
  \/ \E c \in Conns : nOps < MaxForwardOps /\ Server(BoardCleared(c, whiteboardId[c]))
  \/ \E c \in Conns : nOps < MaxForwardOps /\ Server(RequestSync(c, whiteboardId[c]))
  \/ \E c \in Conns : nOps < MaxForwardOps /\ Server(LoadSnapshot(c, whiteboardId[c], canvas[c]))
  \/ \E w \in pending : Server(ActivityDone(w))

ForwardSpec == Init /\ [][ForwardNext]_vars

\* Late-joiner sync: the pages of one board draw and exchange snapshots.
SyncNext ==
  \/ \E c \in Conns, r \in Boards : Open(c, r)
  \/ \E c \in Conns : EmitJoin(c)
  \/ \E w \in pending : Server(JoinResume(w))
  \/ \E c \in Conns : nOps < MaxSyncOps /\ EmitRequestSync(c)
  \/ \E c \in Conns : nOps < MaxSyncOps /\ PenStroke(c)
  \/ \E w \in pending : Server(ActivityDone(w))
  \/ \E c \in Conns : OnDraw(c)
  \/ \E c \in Conns : nOps < MaxSyncOps /\ OnRequestSync(c)
  \/ \E c \in Conns : OnLoadSnapshot(c)
  \/ \E c \in Conns : \E img \in loading[c] : ImgOnload(c, img)
  \/ \E c \in Conns : Unheard(c)

SyncSpec == Init /\ [][SyncNext]_vars

\* Payloads: pages join and draw, and any message may come without a payload object.
PayloadNext ==
  \/ \E c \in Conns, r \in Rooms : Open(c, r)
  \/ \E c \in Conns : EmitJoin(c)
  \/ \E w \in pending : Server(JoinResume(w))
  \/ \E c \in Conns : nOps < MaxPayloadOps /\ Server(Draw(c, whiteboardId[c]))
  \/ \E w \in pending : Server(ActivityDone(w))
  \/ \E c \in Conns, type \in Destructuring \cup DefaultParam, payload \in Payloads :
       Server(Malformed(c, type, payload))

PayloadSpec == Init /\ [][PayloadNext]_vars

\* Store failures: the writes of join and draw may be rejected.
StoreNext ==
  \/ \E c \in Conns, r \in Boards : Open(c, r)
  \/ \E c \in Conns : EmitJoin(c)
  \/ \E w \in pending : Server(JoinResume(w))
  \/ \E w \in pending : Server(JoinFailed(w))
  \/ \E c \in Conns : nOps < MaxStoreOps /\ Server(Draw(c, whiteboardId[c]))
  \/ \E w \in pending : Server(ActivityDone(w))
  \/ \E w \in pending : Server(ActivityFailed(w))

StoreSpec == Init /\ [][StoreNext]_vars

\* Authentication: handshakes with every kind of token; pages join, draw and clear.
AuthNext ==
  \/ \E c \in Conns, r \in Rooms, token \in Tokens : OpenWith(c, r, token)
  \/ \E c \in Conns : EmitJoin(c)
  \/ \E w \in pending : Server(JoinResume(w))
  \/ \E c \in Conns : nOps < MaxAuthOps /\ Server(Draw(c, whiteboardId[c]))
  \/ \E c \in Conns : nOps < MaxAuthOps /\ Server(BoardCleared(c, whiteboardId[c]))
  \/ \E w \in pending : Server(ActivityDone(w))

AuthSpec == Init /\ [][AuthNext]_vars

\* Room ids: pages join with room ids and with values that are none; the pages on a
\* room draw.
JoinNext ==
  \/ \E c \in Conns, r \in Rooms \cup BadRoomIds : Open(c, r)
  \/ \E c \in Conns : EmitJoin(c)
  \/ \E w \in pending : Server(JoinResume(w))
  \/ \E c \in Conns :
       nOps < MaxJoinOps /\ whiteboardId[c] \in Rooms /\ Server(Draw(c, whiteboardId[c]))
  \/ \E w \in pending : Server(ActivityDone(w))

JoinSpec == Init /\ [][JoinNext]_vars

\* Convergence: two pages of one board draw and clear, each on its own canvas first.
ConvergeNext ==
  \/ \E c \in Pair, r \in Boards : Open(c, r)
  \/ \E c \in Pair : EmitJoin(c)
  \/ \E w \in pending : Server(JoinResume(w))
  \/ \E c \in Pair : nOps < MaxConvergeOps /\ PenStroke(c)
  \/ \E c \in Pair : nOps < MaxConvergeOps /\ ClearBoard(c)
  \/ \E w \in pending : Server(ActivityDone(w))
  \/ \E c \in Pair : OnDraw(c)
  \/ \E c \in Pair : OnBoardCleared(c)
  \/ \E c \in Pair : Unheard(c)

ConvergeSpec == Init /\ [][ConvergeNext]_vars

\* The cache: two pages; every handler that touches the cache.
CacheNext ==
  \/ \E c \in Pair, r \in Rooms : Open(c, r)
  \/ \E c \in Pair : EmitJoin(c)
  \/ \E w \in pending : Server(JoinResume(w))
  \/ \E c \in Pair : nOps < MaxCacheOps /\ Server(Draw(c, whiteboardId[c]))
  \/ \E c \in Pair : nOps < MaxCacheOps /\ Server(Erase(c, whiteboardId[c]))
  \/ \E c \in Pair : nOps < MaxCacheOps /\ Server(Shape(c, whiteboardId[c]))
  \/ \E c \in Pair : nOps < MaxCacheOps /\ Server(Text(c, whiteboardId[c]))
  \/ \E c \in Pair : nOps < MaxCacheOps /\ Server(Fill(c, whiteboardId[c]))
  \/ \E c \in Pair : nOps < MaxCacheOps /\ Server(SelectionCut(c, whiteboardId[c]))
  \/ \E c \in Pair : nOps < MaxCacheOps /\ Server(PasteSelection(c, whiteboardId[c]))
  \/ \E c \in Pair : nOps < MaxCacheOps /\ Server(BoardCleared(c, whiteboardId[c]))
  \/ \E c \in Pair : nOps < MaxCacheOps /\ Server(BoardSaved(c, whiteboardId[c]))
  \/ \E w \in pending : Server(ActivityDone(w))

CacheSpec == Init /\ [][CacheNext]_vars

\* Clearing: pages on two rooms draw and clear.
ClearNext ==
  \/ \E c \in Conns, r \in Rooms : Open(c, r)
  \/ \E c \in Conns : EmitJoin(c)
  \/ \E w \in pending : Server(JoinResume(w))
  \/ \E c \in Conns : nOps < MaxClearOps /\ Server(Draw(c, whiteboardId[c]))
  \/ \E c \in Conns : nOps < MaxClearOps /\ Server(BoardCleared(c, whiteboardId[c]))
  \/ \E w \in pending : Server(ActivityDone(w))

ClearSpec == Init /\ [][ClearNext]_vars

\* Saving: two pages, with and without a session, draw and save.
SaveNext ==
  \/ \E c \in Pair, r \in Rooms, token \in {"", "good"} : OpenWith(c, r, token)
  \/ \E c \in Pair : EmitJoin(c)
  \/ \E w \in pending : Server(JoinResume(w))
  \/ \E c \in Pair : nOps < MaxSaveOps /\ Server(Draw(c, whiteboardId[c]))
  \/ \E c \in Pair : Save(c)
  \/ \E c \in Pair, res \in Responses : Respond(c, res)
  \/ \E c \in Pair : nOps < MaxSaveOps /\ SaveResume(c)
  \/ \E w \in pending : Server(ActivityDone(w))

SaveSpec == Init /\ [][SaveNext]_vars

\* Replies to one request: page A asks for a snapshot, the other pages answer; page B
\* draws.
ReplyNext ==
  \/ \E c \in Conns, r \in Boards : Open(c, r)
  \/ \E c \in Conns : EmitJoin(c)
  \/ \E w \in pending : Server(JoinResume(w))
  \/ nOps < MaxReplyOps /\ EmitRequestSync("A")
  \/ nOps < MaxReplyOps /\ PenStroke("B")
  \/ \E w \in pending : Server(ActivityDone(w))
  \/ \E c \in Conns : OnDraw(c)
  \/ \E c \in Conns : nOps < MaxReplyOps /\ OnRequestSync(c)
  \/ \E c \in Conns : OnLoadSnapshot(c)
  \/ \E c \in Conns : \E img \in loading[c] : ImgOnload(c, img)
  \/ \E c \in Conns : Unheard(c)

ReplySpec == Init /\ [][ReplyNext]_vars

\* Loading snapshots: one page paints, then loads one snapshot again and again.
LoadNext ==
  \/ \E p \in Cells : Paint("A", p)
  \/ \E img \in Images, bounds \in BoundsSet :
       /\ decoding["A"] = {}
       /\ applied["A"] # <<>> => applied["A"][1] = [img |-> img, bounds |-> bounds]
       /\ LoadFromDataURL("A", img, bounds)
  \/ \E s \in decoding["A"] :
       /\ Len(history["A"]) < MaxLoadFrames
       /\ applied["A"] # <<>> /\ applied["A"][1] = s => Len(applied["A"]) < MaxLoads
       /\ ImgLoaded("A", s)

LoadSpec == Init /\ [][LoadNext]_vars

\* Replay against live: page A sends operations of every cached type, the other pages
\* take them live or, joining later, replay the canvas-state batch.
ReplayNext ==
  \/ \E c \in Conns : Open(c, "b1")
  \/ \E c \in Conns : EmitJoin(c)
  \/ \E w \in pending : Server(JoinResume(w))
  \/ nOps < MaxReplayOps /\ Server(Draw("A", whiteboardId["A"]))
  \/ nOps < MaxReplayOps /\ Server(Erase("A", whiteboardId["A"]))
  \/ nOps < MaxReplayOps /\ Server(Shape("A", whiteboardId["A"]))
  \/ nOps < MaxReplayOps /\ Server(Text("A", whiteboardId["A"]))
  \/ nOps < MaxReplayOps /\ Server(Fill("A", whiteboardId["A"]))
  \/ nOps < MaxReplayOps /\ Server(SelectionCut("A", whiteboardId["A"]))
  \/ nOps < MaxReplayOps /\ Server(PasteSelection("A", whiteboardId["A"]))
  \/ \E w \in pending : Server(ActivityDone(w))
  \/ \E c \in Conns : OnDraw(c)
  \/ \E c \in Conns : OnShape(c)
  \/ \E c \in Conns : OnText(c)
  \/ \E c \in Conns : OnFill(c)
  \/ \E c \in Conns : OnSelectionCut(c)
  \/ \E c \in Conns : OnPasteSelection(c)
  \/ \E c \in Conns : ApplyEvents(c)
  \/ \E c \in Conns : Unheard(c) /\ NextMsg(c).type # "canvas-state"

ReplaySpec == Init /\ [][ReplayNext]_vars

\* Opening a board: pages open, load the document and render.
BoardNext ==
  \/ \E c \in Pair : Open(c, "b1")
  \/ \E c \in Pair, local \in LocalCopies : LoadWhiteboard(c, local)
  \/ \E c \in Pair, ok \in BOOLEAN, canvasImage \in BOOLEAN : WhiteboardLoaded(c, ok, canvasImage)
  \/ \E c \in Pair : Render(c)
  \/ \E c \in Pair : applySizing(c)
  \/ \E c \in Pair : \E s \in decoding[c] : Len(applied[c]) < MaxLoads /\ ImgLoaded(c, s)

BoardSpec == Init /\ [][BoardNext]_vars

\* Joining again: two pages of one board whose sockets send join any number of times.
RejoinNext ==
  \/ \E c \in Pair : Open(c, "b1")
  \/ \E c \in Pair :
       /\ whiteboardId[c] # "" /\ Len(activeUsers["b1"]) < MaxRecords
       /\ Server(JoinMessage(c, whiteboardId[c]))
  \/ \E w \in pending : Server(JoinResume(w))
  \/ \E c \in Pair : Server(Leave(c, whiteboardId[c]))
  \/ \E w \in pending : Server(LeaveResume(w))

RejoinSpec == Init /\ [][RejoinNext]_vars

\* Rooms side by side: pages on two rooms; a socket sends operations with the id
\* of either room, its own or the other.
IsolateNext ==
  \/ \E c \in Conns, r \in Rooms : Open(c, r)
  \/ \E c \in Conns : EmitJoin(c)
  \/ \E w \in pending : Server(JoinResume(w))
  \/ \E c \in Conns, r \in Rooms : nOps < MaxIsolateOps /\ Server(Draw(c, r))
  \/ \E c \in Conns, r \in Rooms : nOps < MaxIsolateOps /\ Server(Fill(c, r))
  \/ \E c \in Conns, r \in Rooms : nOps < MaxIsolateOps /\ Server(TextTyping(c, r))
  \/ \E c \in Conns, r \in Rooms : nOps < MaxIsolateOps /\ Server(TextFinalized(c, r))
  \/ \E c \in Conns, r \in Rooms : nOps < MaxIsolateOps /\ Server(BoardCleared(c, r))
  \/ \E w \in pending : Server(ActivityDone(w))

IsolateSpec == Init /\ [][IsolateNext]_vars

\* Chat: two pages send chat messages, well-formed and not, with the id of their
\* board or none; the store takes the document or rejects it.
ChatNext ==
  \/ \E c \in Pair, r \in Rooms : Open(c, r)
  \/ \E c \in Pair : EmitJoin(c)
  \/ \E w \in pending : Server(JoinResume(w))
  \/ \E c \in Pair : \E roomId \in {whiteboardId[c], ""}, text \in {" hi ", " ", "<42>"} :
       Cardinality(pending) < MaxChats /\ Server(ChatMessage(c, roomId, text))
  \/ \E w \in pending, ok \in BOOLEAN :
       Len(chatMessages) < MaxChats /\ Server(ChatMessageCreate(w, ok))
  \/ \E w \in pending : Server(ChatMessageResume(w))

ChatSpec == Init /\ [][ChatNext]_vars

\* Leaving: two pages of one board join, draw and leave.
LeaveNext ==
  \/ \E c \in Pair : Open(c, "b1")
  \/ \E c \in Pair : EmitJoin(c)
  \/ \E w \in pending : Server(JoinResume(w))
  \/ \E c \in Pair : nOps < MaxLeaveOps /\ Server(Draw(c, whiteboardId[c]))
  \/ \E w \in pending : Server(ActivityDone(w))
  \/ \E c \in Pair : EmitLeave(c)
  \/ \E w \in pending : Server(LeaveResume(w))

LeaveSpec == Init /\ [][LeaveNext]_vars

\* Saving against the live stream: two pages of one board draw, hear each other and
\* save.
RecoverNext ==
  \/ \E c \in Pair : Open(c, "b1")
  \/ \E c \in Pair : EmitJoin(c)
  \/ \E w \in pending : Server(JoinResume(w))
  \/ \E c \in Pair : nOps < MaxRecoverOps /\ PenStroke(c)
  \/ \E w \in pending : Server(ActivityDone(w))
  \/ \E c \in Pair : OnDraw(c)
  \/ \E c \in Pair : Unheard(c)
  \/ \E c \in Pair : saving[c] = "idle" /\ Save(c)
  \/ \E c \in Pair : Respond(c, "ok")
  \/ \E c \in Pair : nOps < MaxRecoverOps /\ SaveResume(c)

RecoverSpec == Init /\ [][RecoverNext]_vars

\* Undo and redo: two pages of one board draw; page A hears B's strokes, ends its
\* own, undoes and redoes.
HistoryNext ==
  \/ \E c \in Pair : Open(c, "b1")
  \/ \E c \in Pair : EmitJoin(c)
  \/ \E w \in pending : Server(JoinResume(w))
  \/ \E c \in Pair : nOps < MaxHistoryOps /\ PenStroke(c)
  \/ \E w \in pending : Server(ActivityDone(w))
  \/ OnDraw("A")
  \/ Unheard("A")
  \/ MouseUp("A")
  \/ Undo("A")
  \/ Redo("A")

HistorySpec == Init /\ [][HistoryNext]_vars

\* Replay before the canvas is laid out: page A draws; page B joins, loads the board
\* and renders, and takes the batch and the live strokes before or after applySizing.
RetryNext ==
  \/ \E c \in Pair : Open(c, "b1")
  \/ \E c \in Pair : EmitJoin(c)
  \/ \E w \in pending : Server(JoinResume(w))
  \/ nOps < MaxRetryOps /\ Server(Draw("A", "b1"))
  \/ \E w \in pending : Server(ActivityDone(w))
  \/ LoadWhiteboard("B", "none")
  \/ \E ok \in BOOLEAN : WhiteboardLoaded("B", ok, FALSE)
  \/ Render("B")
  \/ applySizing("B")
  \/ ApplyEvents("B")
  \/ ReplayRetry("B")
  \/ OnDraw("B")

RetrySpec == Init /\ [][RetryNext]_vars

\* Dropped operations: page A sends draw, shape, text and fill, well-formed and not,
\* and erase; page B takes them live or, joining later, replays the batch.
DropNext ==
  \/ \E c \in Pair : Open(c, "b1")
  \/ \E c \in Pair : EmitJoin(c)
  \/ \E w \in pending : Server(JoinResume(w))
  \/ \E type \in ReplayCases :
       nOps < MaxDropOps /\ Server(CacheAndForward("A", type, "b1")
                                     /\ UNCHANGED <<activeUsers, pending>>)
  \/ nOps < MaxDropOps /\ Server(Erase("A", "b1"))
  \/ \E type \in ReplayCases : nOps < MaxDropOps /\ Server(WithoutFields("A", type, "b1"))
  \/ OnDraw("B")
  \/ OnShape("B")
  \/ OnText("B")
  \/ OnFill("B")
  \/ ApplyEvents("B")
  \/ Unheard("B") /\ NextMsg("B").type # "canvas-state"

DropSpec == Init /\ [][DropNext]_vars

\* Snapshots against the live stream: two pages of one board.
SnapshotNext ==
  \/ \E c \in Pair, r \in Boards : Open(c, r)
  \/ \E c \in Pair : EmitJoin(c)
  \/ \E w \in pending : Server(JoinResume(w))
  \/ \E c \in Pair : nOps < MaxSnapshotOps /\ EmitRequestSync(c)
  \/ \E c \in Pair : nOps < MaxSnapshotOps /\ PenStroke(c)
  \/ \E w \in pending : Server(ActivityDone(w))
  \/ \E c \in Pair : OnDraw(c)
  \/ \E c \in Pair : nOps < MaxSnapshotOps /\ OnRequestSync(c)
  \/ \E c \in Pair : OnLoadSnapshot(c)
  \/ \E c \in Pair : \E img \in loading[c] : ImgOnload(c, img)
  \/ \E c \in Pair : Unheard(c)

SnapshotSpec == Init /\ [][SnapshotNext]_vars

\* ------------------------------------------------------------ claims
\* The join handler of c has run to its end.
JoinDone(c) ==
  /\ "join" \in emitted[c]
  /\ ~\E w \in pending : w.h = "join" /\ w.c = c

\* How often the operation numbered id is in the messages sent to c: live ...
LiveCount(c, id) ==
  Cardinality({i \in 1..Len(sent[c]) : sent[c][i].type \in CachedTypes /\ sent[c][i].id = id})

\* ... and inside canvas-state batches.
ReplayCount(c, id) ==
  Cardinality({p \in (1..Len(sent[c])) \X (1..MaxOps) :
                 /\ sent[c][p[1]].type = "canvas-state"
                 /\ p[2] <= Len(sent[c][p[1]].events)
                 /\ sent[c][p[1]].events[p[2]].id = id})

\* C1: no live operation of a room is sent to a joining connection before that
\* connection's canvas-state batch for the room, in any interleaving of the join with
\* the operations of the others.
C1_ReplayBeforeLive ==
  \A c \in Conns : \A i, j \in 1..Len(sent[c]) :
    (i < j /\ sent[c][j].type = "canvas-state" /\ sent[c][i].roomId = sent[c][j].roomId)
      => sent[c][i].type \notin CachedTypes

\* C2: a participant of a board whose join has been handled has been sent every
\* cached operation of the others exactly once, counting the live messages and the
\* canvas-state batch together: none twice, none skipped.
C2_ExactlyOnce ==
  \A b \in Boards : \A c \in rooms[b] :
    JoinDone(c) =>
      \A k \in 1..Len(canvasStateCache[b]) :
        canvasStateCache[b][k].from # c =>
          LiveCount(c, canvasStateCache[b][k].id) + ReplayCount(c, canvasStateCache[b][k].id) = 1

\* The join handler of c runs to its end in this step.
JoinEnds(c) ==
  \/ "join" \notin emitted[c] /\ "join" \in emitted'[c] /\ JoinDone(c)'
  \/ \E w \in pending : w.h = "join" /\ w.c = c /\ w \notin pending'

\* C3: when the join of a connection has been handled and the cache of its room holds
\* op1..opN, the connection has been sent one canvas-state whose events are op1..opN
\* in order.
C3_JoinerSentCache ==
  [][\A c \in Conns :
       (JoinEnds(c) /\ Len(canvasStateCache[whiteboardId[c]]) > 0)
         => sent'[c] = Append(sent[c], Msg("canvas-state", whiteboardId[c], "server", 0,
                                           canvasStateCache[whiteboardId[c]], {}))]_vars

\* C4: two cached operations handled one after the other are in that order in the
\* cache of their room and in what every participant other than their origins has
\* been sent; each handled operation is put last in the cache and sent last to every
\* other participant of the room.
C4_HandlingOrder ==
  /\ [](\A r \in Rooms : \A i, j \in 1..Len(canvasStateCache[r]) :
          i < j => canvasStateCache[r][i].id < canvasStateCache[r][j].id)
  /\ [](\A c \in Conns : \A i, j \in 1..Len(sent[c]) :
          (i < j /\ sent[c][i].type \in CachedTypes /\ sent[c][j].type \in CachedTypes)
            => sent[c][i].id < sent[c][j].id)
  /\ [][nOps' = nOps + 1 =>
          \E c \in Conns :
            /\ sockets[c] = "open"
            /\ canvasStateCache'[whiteboardId[c]] # <<>>
            /\ canvasStateCache'[whiteboardId[c]][Len(canvasStateCache'[whiteboardId[c]])].id = nOps'
            /\ \A d \in rooms[whiteboardId[c]] \ {c} :
                 /\ Len(sent'[d]) = Len(sent[d]) + 1
                 /\ sent'[d][Len(sent'[d])].id = nOps'
                 /\ sent'[d][Len(sent'[d])].from = c]_vars

\* C4 witness: a participant has been sent two operations of different kinds that two
\* others originated, and the cache of its room holds both.
C4_Witness ==
  \E c \in Conns, r \in Rooms :
    /\ c \in rooms[r] /\ Len(canvasStateCache[r]) = 2 /\ Len(sent[c]) >= 2
    /\ sent[c][Len(sent[c]) - 1].id = 1 /\ sent[c][Len(sent[c])].id = 2
    /\ sent[c][Len(sent[c]) - 1].type # sent[c][Len(sent[c])].type
    /\ sent[c][Len(sent[c]) - 1].from # sent[c][Len(sent[c])].from

\* C5: no forwarded message is sent to the connection that emitted it.
C5_NoEcho ==
  \A c \in Conns : \A i \in 1..Len(sent[c]) : sent[c][i].from # c

\* C5 witness: a member of a room emitted a message, and another member was sent it.
C5_Witness ==
  \E c, d \in Conns, r \in Rooms :
    /\ c # d /\ {c, d} \subseteq rooms[r]
    /\ \E i \in 1..Len(sent[d]) : sent[d][i].from = c /\ sent[d][i].roomId = r

\* C6: the board:load-snapshot a page emits in reply to a board:request-sync is sent to
\* the requester only; no other connection is sent it.
C6_ReplyToRequesterOnly ==
  [][\A c \in Conns :
       (/\ rcvd[c] < Len(sent[c])
        /\ NextMsg(c).type = "board:request-sync"
        /\ rcvd'[c] = rcvd[c] + 1)
         => \A d \in Conns \ {NextMsg(c).from} : sent'[d] = sent[d]]_vars

\* C7: when a page applies a snapshot (img.onload of a picture it was sent), every
\* operation of another page that its canvas shows stays on the canvas.
C7_SnapshotKeepsOps ==
  [][\A c \in Conns :
       (loading'[c] # loading[c] /\ loading'[c] \subseteq loading[c])
         => \A e \in canvas[c] : e.from # c => e \in canvas'[c]]_vars

\* C8: when the handlers of all joins, leaves and disconnects have completed, the
\* latest room-info sent to each connection in a board's room has the number of
\* connections in the room as userCount.
C8_RoomInfoCount ==
  pending = {} =>
    \A b \in Boards : \A c \in rooms[b] : roomInfo[c] = RoomInfo(b, Cardinality(rooms[b]))

\* C9: when the leave or disconnect of a connection has been handled and every store
\* write has completed, no board has an active-session record with the connection's
\* id, whatever the interleaving with the connection's join.
C9_NoSessionLeft ==
  pending = {} =>
    \A b \in Boards : \A c \in Conns :
      ("join" \in emitted[c] /\ c \notin rooms[b]) => ~HasSession(b, c)

\* C10: A, B and C are in a room and have been told so; the socket of C closes without
\* a leave and its disconnect has been handled. Once the stale sweep has run, the
\* board has no record of C, and A and B have been sent a room-info whose userCount
\* leaves C out.
C10_ClosedSocketSwept ==
  [][\A b \in Boards :
       (/\ now' = now + 1
        /\ sockets["C"] = "closed" /\ pending = {}
        /\ whiteboardId["C"] = b /\ "join" \in emitted["C"]
        /\ rooms[b] = {"A", "B"}
        /\ roomInfo["A"] = RoomInfo(b, 3) /\ roomInfo["B"] = RoomInfo(b, 3))
         => /\ ~HasSession(b, "C")'
            /\ roomInfo'["A"] = RoomInfo(b, 2)
            /\ roomInfo'["B"] = RoomInfo(b, 2)]_vars

\* C11: whatever message a connection sends, with whatever payload, the failure stays
\* with that message: no step of the server ends the connections of two participants,
\* so every participant other than the sender stays connected.
C11_FailureContained ==
  [][\A d, e \in Conns :
       (d # e /\ sockets[d] = "open" /\ sockets[e] = "open")
         => (sockets'[d] = "open" \/ sockets'[e] = "open")]_vars

\* C12: when the session write of a join or the activity write of a draw ends, failed
\* or not, no error event is sent to any client; at the end of a join's write the room
\* is sent room-info with its size and the joiner is sent the cache, if there is any.
C12_StoreFailureOnlyLogged ==
  [][\A w \in pending :
       w \notin pending' =>
         /\ \A d \in Conns : \A n \in notices'[d] : n.type # "error"
         /\ w.h = "join" =>
              /\ \A d \in rooms[w.r] :
                   sockets[d] = "open" => roomInfo'[d] = RoomInfo(w.r, Cardinality(rooms[w.r]))
              /\ sent'[w.c] = CanvasStateTo(sent, w.c, w.r)[w.c]]_vars

\* C13: a connection whose handshake carries no token, a token the verifier rejects or
\* a token the verifier fails on is refused: it is never open, is in no room, has put
\* nothing in a cache and nothing of it has been sent to anyone.
C13_Unauthenticated ==
  \A c \in Conns :
    auth[c] # "good" =>
      /\ sockets[c] \in {"none", "refused"}
      /\ \A r \in Rooms : c \notin rooms[r]
      /\ \A r \in Rooms : \A k \in 1..Len(canvasStateCache[r]) : canvasStateCache[r][k].from # c
      /\ \A d \in Conns : \A k \in 1..Len(sent[d]) : sent[d][k].from # c
      /\ \A w \in pending : w.c # c

\* C13 witness: each of the three kinds of failing handshake has been refused.
C13_Witness ==
  /\ \A c \in Conns : sockets[c] = "refused"
  /\ {auth[c] : c \in Conns} = Tokens \ {"good"}

\* C14: the handling of a join whose roomId is missing, empty or no string sends an
\* error event to the caller and to nobody else, adds the caller to no room, changes
\* no cache and no session record, sends nothing else to anyone and leaves every
\* connection as it is.
C14_InvalidJoin ==
  [][\A c \in Conns :
       ("join" \notin emitted[c] /\ "join" \in emitted'[c] /\ whiteboardId[c] \in BadRoomIds)
         => /\ notices'[c] = notices[c] \cup {Notice("error", whiteboardId[c], "Invalid room id")}
            /\ \A d \in Conns \ {c} : notices'[d] = notices[d]
            /\ sockets' = sockets /\ sockets[c] = "open"
            /\ rooms' = rooms /\ canvasStateCache' = canvasStateCache
            /\ activeUsers' = activeUsers /\ pending' = pending
            /\ sent' = sent /\ roomInfo' = roomInfo]_vars

\* C14 witness: a connection has been sent the error of an invalid join while another connection is in a room whose cache holds an operation.
C14_Witness ==
  \E c, d \in Conns, r \in Rooms :
    /\ c # d /\ sockets[c] = "open" /\ whiteboardId[c] \in BadRoomIds
    /\ Notice("error", whiteboardId[c], "Invalid room id") \in notices[c]
    /\ d \in rooms[r] /\ Len(canvasStateCache[r]) = 1

\* C15: in every room, whether its id is a board id or an arbitrary string, a joiner
\* is sent in a canvas-state batch every operation of the others that the cache of the
\* room holds when its join is handled.
C15_ReplayInEveryRoom ==
  [][\A c \in Conns :
       JoinEnds(c) =>
         \A k \in 1..Len(canvasStateCache[whiteboardId[c]]) :
           canvasStateCache[whiteboardId[c]][k].from # c =>
             \E i \in 1..Len(sent'[c]) :
               /\ sent'[c][i].type = "canvas-state"
               /\ \E j \in 1..Len(sent'[c][i].events) :
                    sent'[c][i].events[j] = canvasStateCache[whiteboardId[c]][k]]_vars

\* The live operation messages among those sent to c.
LiveSent(c) == {i \in 1..Len(sent[c]) : sent[c][i].type \in {"draw", "board-cleared"}}

\* C16: two participants of a board that were in its room for every operation (each
\* operation handled was sent to the other one) and have handled everything sent to
\* them have the same content on their canvases.
C16_Converged ==
  \A b \in Boards :
    ({"A", "B"} \subseteq rooms[b]
       /\ Cardinality(LiveSent("A")) + Cardinality(LiveSent("B")) = nOps
       /\ \A c \in {"A", "B"} : rcvd[c] = Len(sent[c]) /\ loading[c] = {})
      => canvas["A"] = canvas["B"]

\* C17: across every step, the cache of each room afterwards is the cache before with
\* entries added at its end, or is empty.
C17_AppendOrEmpty ==
  [][\A r \in Rooms :
       \/ canvasStateCache'[r] = <<>>
       \/ /\ Len(canvasStateCache'[r]) >= Len(canvasStateCache[r])
          /\ SubSeq(canvasStateCache'[r], 1, Len(canvasStateCache[r])) = canvasStateCache[r]]_vars

\* C17 witness: a cache of two entries has been emptied and holds a new entry.
C17_Witness ==
  \E r \in Rooms :
    /\ nOps = MaxCacheOps /\ Len(canvasStateCache[r]) = 2
    /\ canvasStateCache[r][1].id = 1 /\ canvasStateCache[r][2].id = MaxCacheOps

\* The message that this step sent to d as its last one, if the step handled an
\* operation and sent it to d.
Forwarded(d) ==
  /\ nOps' = nOps + 1
  /\ Len(sent'[d]) = Len(sent[d]) + 1
  /\ sent'[d][Len(sent'[d])].id = nOps'

C19_ClearIdempotent ==
  [][\A d \in Conns :
       (Forwarded(d) /\ sent'[d][Len(sent'[d])].type = "board-cleared")
         => LET m == sent'[d][Len(sent'[d])]
            IN /\ canvasStateCache'[m.roomId] = <<>>
               /\ \A r \in Rooms \ {m.roomId} : canvasStateCache'[r] = canvasStateCache[r]]_vars

\* C19 witness: board-cleared has been handled twice in a row for one room while
\* another room's cache holds an operation.
C19_Witness ==
  \E d \in Conns, r \in Rooms :
    /\ Len(sent[d]) >= 2
    /\ sent[d][Len(sent[d]) - 1].type = "board-cleared"
    /\ sent[d][Len(sent[d])].type = "board-cleared"
    /\ sent[d][Len(sent[d])].id = nOps /\ sent[d][Len(sent[d]) - 1].id = nOps - 1
    /\ sent[d][Len(sent[d])].roomId # r
    /\ canvasStateCache[r] # <<>>

\* C20: a page emits board-saved only in the step of save() that follows a success
\* response; the step that follows an error response or a request that could not be
\* sent, and a save without a session, emit nothing and leave every cache as it was.
C20_SavedAfterOk ==
  [][\A c \in Conns :
       /\ ("board-saved" \in emitted'[c] /\ "board-saved" \notin emitted[c])
            => saving[c] = "ok"
       /\ (saving'[c] # saving[c] /\ nOps' # nOps) => saving[c] = "ok"
       /\ (saving'[c] # saving[c] /\ saving'[c] \in {"failed", "cannot"})
            => /\ saving[c] # "ok"
               /\ emitted' = emitted
               /\ canvasStateCache' = canvasStateCache
               /\ nOps' = nOps]_vars

\* C20 witness: one page's save succeeded, it emitted board-saved and its room's cache
\* is empty; another page's save failed, it emitted nothing and its room's cache still
\* holds an operation.
C20_Witness ==
  \E c, d \in Conns :
    /\ saving[c] = "saved" /\ "board-saved" \in emitted[c]
    /\ canvasStateCache[whiteboardId[c]] = <<>>
    /\ saving[d] = "failed" /\ "board-saved" \notin emitted[d]
    /\ canvasStateCache[whiteboardId[d]] # <<>>

\* The snapshots for its board that page c has taken from its socket so far.
SnapshotsTaken(c) ==
  {i \in 1..rcvd[c] : sent[c][i].type = "board:load-snapshot"
                        /\ sent[c][i].roomId = whiteboardId[c]}

\* C21: a page that has asked for a snapshot and has taken one reply ignores every
\* later board:load-snapshot: taking it starts no decoding and changes no canvas.
C21_FirstSnapshotOnly ==
  [][\A c \in Conns :
       ( /\ "board:request-sync" \in emitted[c]
         /\ SnapshotsTaken(c) # {}
         /\ rcvd'[c] = rcvd[c] + 1
         /\ sent[c][rcvd'[c]].type = "board:load-snapshot" )
         => (loading'[c] = loading[c] /\ canvas'[c] = canvas[c])]_vars

\* C22: when one of draw, erase, shape, text, fill, selection-cut and paste-selection
\* is handled for a persisted room (and forwarded to a participant), the handler
\* issues the write that sets lastActivity of the sender's session record to now.
C22_ActivityRefreshed ==
  [][\A d \in Conns :
       ( /\ Forwarded(d)
         /\ sent'[d][Len(sent'[d])].type \in CachedTypes
         /\ IsValidObjectId(sent'[d][Len(sent'[d])].roomId) )
         => LET m == sent'[d][Len(sent'[d])]
            IN Request("activity", m.from, m.roomId, now, {}) \in pending']_vars

\* The leave handler of c runs to its end in this step.
LeaveEnds(c) ==
  \/ /\ "leave" \notin emitted[c] /\ "leave" \in emitted'[c]
     /\ ~\E w \in pending' : w.h = "leave" /\ w.c = c
  \/ \E w \in pending : w.h = "leave" /\ w.c = c /\ w \notin pending'

\* C23: when the join of a connection for a room has been handled, every other
\* participant of the room has been sent user-joined with the joiner's identity; when
\* its leave has been handled, every remaining participant has been sent user-left.
C23_PresenceNotified ==
  [][\A c \in Conns :
       /\ JoinEnds(c) =>
            \A d \in rooms'[whiteboardId[c]] \ {c} :
              sockets[d] = "open"
                => Notice("user-joined", whiteboardId[c], c) \in notices'[d]
       /\ LeaveEnds(c) =>
            \A d \in rooms'[whiteboardId[c]] \ {c} :
              sockets[d] = "open"
                => Notice("user-left", whiteboardId[c], c) \in notices'[d]]_vars

\* C24: when a page draws the snapshot it drew last (same image, same bounds), with
\* nothing drawn in between, its canvas afterwards is what it was before.
C24_SnapshotIdempotent ==
  [][\A c \in Conns :
       ( /\ applied[c] # <<>>
         /\ Len(applied'[c]) = Len(applied[c]) + 1
         /\ applied'[c][1] = applied[c][1] )
         => pixels'[c] = pixels[c]]_vars

\* C24 witness: a translucent snapshot with bounds has been drawn twice in a row over
\* a canvas that had marks.
C24_Witness ==
  \E c \in Conns :
    /\ Len(applied[c]) = 2
    /\ applied[c][1].bounds.finite
    /\ \E p \in Cells : pixels[c][p] \notin {0, MaxAlpha}
    /\ \E p \in Cells : pixels[c][p] = 0

\* The operations of the cached types that were sent to c live.
LiveOps(c) == {i \in 1..Len(sent[c]) : sent[c][i].type \in CachedTypes}

\* C25: a page that joined after op1..opN of another page were cached and has
\* replayed the batch of them has the canvas of a page that was in the room and took
\* op1..opN live.
C25_ReplayAsLive ==
  \A c, d \in Conns :
    ( /\ nOps > 0
      /\ {c, d} \subseteq rooms["b1"]
      /\ rcvd[c] = Len(sent[c]) /\ rcvd[d] = Len(sent[d])
      /\ Len(canvasStateCache["b1"]) = nOps
      /\ \A k \in 1..nOps : canvasStateCache["b1"][k].from \notin {c, d}
      /\ Cardinality(LiveOps(c)) = nOps
      /\ sent[d] = <<Msg("canvas-state", "b1", "server", 0, canvasStateCache["b1"], {})>> )
      => canvas[d] = canvas[c]

\* C26: a page that has loaded a document with a saved canvas image, has no newer
\* local copy, is rendered and has nothing left to decode shows the saved image.
C26_SavedImageShown ==
  \A c \in Conns :
    ( /\ request[c].at = "done" /\ request[c].canvasImage /\ request[c].local # "newer"
      /\ ~pageLoading[c] /\ mounted[c] /\ decoding[c] = {} )
      => pixels[c] = imgOnload(Blank, ServerImage.img, ServerImage.bounds)

\* C27: a run of the stale sweep leaves of each board's session records exactly those
\* whose lastActivity is not before the threshold, in their order and unchanged, and
\* changes no room membership and no cache.
C27_SweepFrame ==
  [][now' = now + 1 =>
       /\ \A b \in Boards :
            LET Fresh(e) == e.lastActivity >= (now + 1) - StaleIntervals
            IN activeUsers'[b] = SelectSeq(activeUsers[b], Fresh)
       /\ rooms' = rooms
       /\ canvasStateCache' = canvasStateCache]_vars

\* C27 witness: the sweep has run twice; of two participants of a board with a cached
\* operation, the record of one has been removed and the record of the other is kept.
C27_Witness ==
  \E b \in Boards : \E c, d \in rooms[b] :
    /\ now = MaxSweeps /\ pending = {}
    /\ ~HasSession(b, c) /\ HasSession(b, d)
    /\ canvasStateCache[b] # <<>>

\* C28: a board's document has at most one active-session record with a given
\* connection id.
C28_OneRecord ==
  \A b \in Boards : \A i, j \in 1..Len(activeUsers[b]) :
    activeUsers[b][i].socketId = activeUsers[b][j].socketId => i = j

\* C29: every step that handles an operation has one room R such that the operation
\* is sent only to sockets that are in R, with R as its roomId, the cache of every
\* other room is as before, what R's cache gains carries R, and no room's membership
\* changes.
C29_RoomIsolation ==
  [][nOps' = nOps + 1 =>
       \E R \in Rooms :
         /\ \A d \in Conns :
              sent'[d] # sent[d] =>
                /\ d \in rooms[R]
                /\ sent'[d] = Append(sent[d], sent'[d][Len(sent'[d])])
                /\ sent'[d][Len(sent'[d])].roomId = R
         /\ \A r \in Rooms \ {R} : canvasStateCache'[r] = canvasStateCache[r]
         /\ \A i \in 1..Len(canvasStateCache'[R]) : canvasStateCache'[R][i].roomId = R
         /\ rooms' = rooms]_vars

\* C29 witness: two rooms have participants; an operation of each room has been
\* handled, cached in its room and forwarded to a participant of its room.
C29_Witness ==
  \E c, d \in Conns :
    /\ c \in rooms["b1"] /\ d \in rooms["abc"]
    /\ canvasStateCache["b1"] # <<>> /\ canvasStateCache["abc"] # <<>>
    /\ \E i \in 1..Len(sent[c]) : sent[c][i].id = canvasStateCache["b1"][1].id
    /\ \E i \in 1..Len(sent[d]) : sent[d][i].id = canvasStateCache["abc"][1].id

\* C30: a chat message is delivered only after its document is in the store, and
\* then to every connected socket of its room, the sender among them when it is in
\* the room, and to no other; a document is stored only for a message with a
\* non-empty roomId and a non-blank string text; a message that fails validation, or
\* whose create rejects, gives its sender an error event and nobody anything else.
C30_ChatDelivery ==
  [][/\ \A w \in pending \ pending' :
          /\ w.h = "chat-created" =>
               /\ w.t \in 1..Len(chatMessages)
               /\ chatMessages[w.t].whiteboardId = w.r /\ chatMessages[w.t].userId = w.c
               /\ \A d \in Conns :
                    sent'[d] = IF d \in rooms[w.r] /\ sockets[d] = "open"
                               THEN Append(sent[d], Msg("chatMessage", w.r, w.c, w.t, <<>>, {}))
                               ELSE sent[d]
               /\ notices' = notices /\ chatMessages' = chatMessages
          /\ w.h = "chat-rejected" =>
               /\ sent' = sent /\ chatMessages' = chatMessages
               /\ \A d \in Conns \ {w.c} : notices'[d] = notices[d]
               /\ sockets[w.c] = "open" =>
                    notices'[w.c] = notices[w.c] \cup {Notice("error", w.r, "Failed to send message")}
          /\ w.h = "chat" =>
               /\ sent' = sent /\ notices' = notices
               /\ chatMessages' # chatMessages => IsValidObjectId(w.r)
     /\ chatMessages' # chatMessages =>
          /\ Len(chatMessages') = Len(chatMessages) + 1
          /\ SubSeq(chatMessages', 1, Len(chatMessages)) = chatMessages
          /\ chatMessages'[Len(chatMessages')].text \notin {"", " ", "<42>", "<undefined>"}
          /\ chatMessages'[Len(chatMessages')].whiteboardId \notin {"", "<undefined>"}
     /\ (pending' = pending /\ notices' # notices) =>
          /\ sent' = sent /\ chatMessages' = chatMessages
          /\ \E c \in Conns :
               /\ \A d \in Conns \ {c} : notices'[d] = notices[d]
               /\ \E r \in Rooms \cup {"", "<undefined>"} :
                    notices'[c] = notices[c] \cup {Notice("error", r, "Invalid message format")}
     /\ \A d \in Conns :
          (sent'[d] # sent[d] /\ sent'[d][Len(sent'[d])].type = "chatMessage")
            => \E w \in pending \ pending' : w.h = "chat-created"]_vars

\* C30 witness: a padded text sent by a participant of a board has been stored
\* trimmed and delivered to the sender and to another participant, and a blank text
\* has brought its sender the error event.
C30_Witness ==
  \E c, d \in rooms["b1"] :
    /\ c # d
    /\ Len(chatMessages) >= 1 /\ chatMessages[1].userId = c /\ chatMessages[1].text = "hi"
    /\ \E i \in 1..Len(sent[c]) : sent[c][i].type = "chatMessage" /\ sent[c][i].id = 1
    /\ \E i \in 1..Len(sent[d]) : sent[d][i].type = "chatMessage" /\ sent[d][i].id = 1
    /\ Notice("error", "b1", "Invalid message format") \in notices[d]
    /\ Notice("error", "b1", "Failed to send message") \in notices[c]

\* C32: a text-typing or text-finalized message is sent to the sockets of its room
\* other than the sender and carries the sender's id; the step changes no cache, and
\* no cache entry and no entry of a canvas-state batch is of these types.
C32_TypingNotCached ==
  [][/\ \A d \in Conns :
          (Forwarded(d) /\ sent'[d][Len(sent'[d])].type \in {"text-typing", "text-finalized"})
            => LET m == sent'[d][Len(sent'[d])]
               IN /\ canvasStateCache' = canvasStateCache
                  /\ m.from # d /\ sockets[m.from] = "open"
                  /\ \A e \in Conns :
                       sent'[e] = IF e \in rooms[m.roomId] \ {m.from} /\ sockets[e] = "open"
                                  THEN Append(sent[e], m) ELSE sent[e]
     /\ \A r \in Rooms : \A i \in 1..Len(canvasStateCache'[r]) :
          canvasStateCache'[r][i].type \notin {"text-typing", "text-finalized"}
     /\ \A d \in Conns : \A i \in 1..Len(sent'[d]) : \A j \in 1..Len(sent'[d][i].events) :
          sent'[d][i].events[j].type \notin {"text-typing", "text-finalized"}]_vars

\* C32 witness: a participant has been sent a text-typing as the second operation of
\* its room, and a joiner of that room has been sent a replay batch.
C32_Witness ==
  \E d, e \in Conns :
    /\ d # e
    /\ \E i \in 1..Len(sent[d]) : sent[d][i].type = "text-typing" /\ sent[d][i].id = 2
    /\ Len(sent[e]) = 1 /\ sent[e][1].type = "canvas-state"
    /\ sent[d][1].roomId = sent[e][1].roomId

\* C36: when a step handles an operation that is forwarded to a socket or added to
\* the cache of a room, its sender is a member of that room.
C36_MemberOnly ==
  [][/\ \A d \in Conns :
          Forwarded(d) => LET m == sent'[d][Len(sent'[d])] IN m.from \in rooms[m.roomId]
     /\ \A r \in Rooms :
          (nOps' = nOps + 1 /\ Len(canvasStateCache'[r]) > Len(canvasStateCache[r]))
            => canvasStateCache'[r][Len(canvasStateCache'[r])].from \in rooms[r]]_vars

\* C38: a run of the stale sweep keeps the session record of every socket that is
\* connected and in the room.
C38_ConnectedKept ==
  [][now' = now + 1 =>
       \A b \in Boards : \A c \in rooms[b] :
         (sockets[c] = "open" /\ HasSession(b, c))
           => \E i \in 1..Len(activeUsers'[b]) : activeUsers'[b][i].socketId = c]_vars

\* Socket c's leave of its board has been handled to its end.
LeaveHandled(c) ==
  /\ "leave" \in emitted[c]
  /\ \A w \in pending : ~(w.h = "leave" /\ w.c = c)

\* C40: once the leave of a socket has been handled, no step sends the socket an
\* operation, a replay batch, a snapshot, a room-info or a presence notice.
C40_NothingAfterLeave ==
  [][\A c \in Conns :
       LeaveHandled(c)
         => /\ sent'[c] = sent[c]
            /\ roomInfo'[c] = roomInfo[c]
            /\ notices'[c] = notices[c]]_vars

\* C37: every stroke that the server has handled for a board is in the board's cache
\* or in the board's saved picture.
C37_Recoverable ==
  \A c \in Conns : \A e \in canvas[c] :
    (e.from = c /\ e.roomId \in Rooms)
      => \/ \E i \in 1..Len(canvasStateCache[e.roomId]) : canvasStateCache[e.roomId][i].id = e.id
         \/ \E s \in canvasImages[e.roomId] : s.id = e.id

\* A step of page c that moves its history index and leaves every history as it was:
\* an undo or a redo.
Stepped(c) == historyStep'[c] # historyStep[c] /\ history' = history

\* C34: a step in which a page undoes or redoes changes nothing of the server (no
\* cache, no message sent to any socket), emits nothing, and leaves the canvas of
\* every other page as it was.
C34_UndoLocal ==
  [][\A c \in Conns :
       Stepped(c)
         => /\ serverVars' = serverVars
            /\ emitted' = emitted
            /\ \A d \in Conns \ {c} : canvas'[d] = canvas[d] /\ pixels'[d] = pixels[d]]_vars

\* C34 witness: page A has undone its second stroke; the cache still holds the stroke
\* and page B still shows the strokes it made itself.
C34_Witness ==
  /\ historyStep["A"] = 0 /\ Len(history["A"]) = 2
  /\ \E i \in 1..Len(canvasStateCache["b1"]) :
       /\ canvasStateCache["b1"][i].from = "A"
       /\ canvasStateCache["b1"][i] \notin canvas["A"]
       /\ canvasStateCache["b1"][i] \in history["A"][2].canvas
  /\ \E e \in canvas["B"] : e.from = "B"

\* C35: after every step the history of each page holds at most HISTORY_MAX_FRAMES
\* frames and its index is from -1 to length - 1, and at least 0 when there is a frame;
\* a step that changes the history leaves the frames up to the index before the step,
\* followed by one new frame (less the oldest frame if that is one too many), and the
\* index on the new frame.
C35_HistoryBounds ==
  [][\A c \in Conns :
       /\ Len(history'[c]) <= HISTORY_MAX_FRAMES
       /\ historyStep'[c] \in -1..(Len(history'[c]) - 1)
       /\ Len(history'[c]) > 0 => historyStep'[c] >= 0
       /\ history'[c] # history[c] =>
            LET n == Len(history'[c])
                kept == SubSeq(history[c], 1, historyStep[c] + 1)
                pushed == Append(kept, history'[c][n])
            IN /\ n >= 1 /\ historyStep'[c] = n - 1
               /\ history'[c] = IF Len(pushed) > HISTORY_MAX_FRAMES THEN Tail(pushed) ELSE pushed]_vars

\* C35 witness: page A made a first and a second stroke, undid, and ended a third
\* stroke: the history holds the frame of the first stroke and then the frame of the
\* first and third, and no frame with the second.
C35_Witness ==
  /\ Len(history["A"]) = 2 /\ historyStep["A"] = 1
  /\ {e.id : e \in history["A"][1].canvas} = {1}
  /\ {e.id : e \in history["A"][2].canvas} = {1, 3}
  /\ \A e \in canvas["A"] : e.from = "A"
  /\ \E i \in 1..Len(canvasStateCache["b1"]) :
       canvasStateCache["b1"][i].id = 2 /\ canvasStateCache["b1"][i].from = "A"

\* C39: an undo leaves on the page's canvas every stroke of another participant that
\* was drawn on it after the frame the page captured last.
C39_UndoKeepsRemote ==
  [][\A c \in Conns :
       (historyStep'[c] = historyStep[c] - 1 /\ history' = history)
         => \A e \in canvas[c] \ history[c][historyStep[c] + 1].canvas :
              e.from # c => e \in canvas'[c]]_vars

====
